---- MODULE Spec2Model ----
(***************************************************************************)
(* Verification model of the CLS news monitor: the de-duplicating poller   *)
(* (CLSScraper.fetch_latest_news), the NewsItem model, and the analysis    *)
(* engine (EnhancedAnalyzer: prompt, backend call, response parser and     *)
(* keyword fallback).                                                      *)
(*                                                                         *)
(* Texts are sequences of tokens.  A token is an indivisible piece of text *)
(* (one character, or one word none of the patterns of the code can        *)
(* split), so that substring tests and pattern matches on token sequences  *)
(* agree with the ones the code performs on characters.                    *)
(***************************************************************************)
EXTENDS Integers, Sequences, FiniteSets, TLC

VARIABLES
    lastSeenId,   \* CLSScraper: identifier of the last item returned ("" = none yet)
    pollLog,      \* history: one record per fetch_latest_news() call
    available,    \* AIProvider.is_available(), fixed when the provider is built
    news,         \* the NewsItem handed to analyze()
    backend,      \* what AIProvider.analyze(prompt) does in this call
    result,       \* what analyze() returned (None / Some(AnalysisResult))
    trace,        \* what analyze() did: prompts built, backend calls, path
    builtPrompt,  \* what the last _build_analysis_prompt() call gave (None / Some)
    promptLog,    \* history: the (item, prompt) pairs of the prompts asked for
    rawRecord,    \* the raw record handed to NewsItem.from_api_response (None / Some)
    urlLog,       \* history: one record per CLSScraper._build_api_url() call
    monitor,      \* CLSNewsMonitor: _running, _stats, ... (None = not constructed)
    cycleLog,     \* history: one record per _process_cycle() call
    provider,     \* the AIProvider create_ai_provider built (None = none built)
    providerLog,  \* history: the create_ai_provider call and the provider.analyze calls
    pc            \* "poll" | "ready" | "prompt" | "done"

vars == <<lastSeenId, pollLog, available, news, backend, result, trace,
          builtPrompt, promptLog, rawRecord, urlLog, monitor, cycleLog,
          provider, providerLog, pc>>

(***************************************************************************)
(* Bounds of the model.                                                    *)
(***************************************************************************)
MaxPolls == 3
MaxFeedLen == 2

(***************************************************************************)
(* Python's Optional: None, or Some(value).                                *)
(***************************************************************************)
None == [some |-> FALSE]
Some(x) == [some |-> TRUE, val |-> x]
IsSome(o) == o.some

(***************************************************************************)
(* Generic sequence helpers.                                               *)
(***************************************************************************)
SeqsUpTo(S, n) == UNION {[1..k -> S] : k \in 0..n}

Range(s) == {s[i] : i \in DOMAIN s}

\* s[from..] (1-based), empty when from is past the end
Drop(s, from) == IF from > Len(s) THEN <<>> ELSE SubSeq(s, from, Len(s))

\* Python slice s[:n]
Take(s, n) == IF n >= Len(s) THEN s ELSE SubSeq(s, 1, n)

\* does pat occur in s at position i
OccursAt(pat, s, i) ==
    /\ i >= 1
    /\ i + Len(pat) - 1 <= Len(s)
    /\ \A k \in 1..Len(pat) : s[i + k - 1] = pat[k]

\* Python `pat in s`
Contains(s, pat) == \E i \in 1..(Len(s) + 1) : OccursAt(pat, s, i)

RECURSIVE Flatten(_)
Flatten(ss) == IF ss = <<>> THEN <<>> ELSE Head(ss) \o Flatten(Tail(ss))

(***************************************************************************)
(* models.py: NewsItem                                                     *)
(***************************************************************************)
\* dict.get(key, default)
Get(data, key, default) == IF key \in DOMAIN data THEN data[key] ELSE default

\* the loop of from_api_response with the bare-string branch left out
RECURSIVE ExtractNames_DictsOnly(_)
ExtractNames_DictsOnly(entries) ==
    IF entries = <<>> THEN <<>>
    ELSE LET e == Head(entries)
             rest == ExtractNames_DictsOnly(Tail(entries))
         IN  IF e.kind = "dict" /\ e.hasName THEN <<e.name>> \o rest
             ELSE rest

\* the loops of from_api_response over data["stocks"] / data["subjects"]:
\* an entry is a dict (with or without "name"), a bare string, or anything else
RECURSIVE ExtractNames(_)
ExtractNames(entries) ==
    IF entries = <<>> THEN <<>>
    ELSE LET e == Head(entries)
             rest == ExtractNames(Tail(entries))
         IN  IF e.kind = "dict" /\ e.hasName THEN <<e.name>> \o rest
             ELSE IF e.kind = "str" THEN <<e.name>> \o rest
             ELSE rest

NamesOf(data, key) ==
    IF key \in DOMAIN data /\ data[key] /= <<>> THEN ExtractNames(data[key]) ELSE <<>>

\* str(data.get("id", "")): identifiers are kept as the feed's text.
\* ctime is a Python int of any size, written here as its decimal digits.
FromApiResponse_DropsId(data) ==
    [id |-> "",
     title |-> Get(data, "title", ""),
     content |-> Get(data, "content", Get(data, "digest", <<>>)),
     ctime |-> Get(data, "ctime", <<"0">>),
     subjects |-> NamesOf(data, "subjects"),
     stocks |-> NamesOf(data, "stocks")]

FromApiResponse(data) ==
    [id |-> Get(data, "id", ""),
     title |-> Get(data, "title", ""),
     content |-> Get(data, "content", Get(data, "digest", <<>>)),
     ctime |-> Get(data, "ctime", <<"0">>),
     subjects |-> NamesOf(data, "subjects"),
     stocks |-> NamesOf(data, "stocks")]

(***************************************************************************)
(* scraper: CLSScraper.fetch_latest_news (the de-duplicating poller)       *)
(***************************************************************************)
FeedIds == {"101", "102"}

\* a raw feed record carrying identifier i
RawRecord(i) ==
    [id |-> i, title |-> "t",
     ctime |-> <<"1", "7", "0", "4", "0", "6", "7", "2", "0", "0">>]

\* what one fetch can give: a failure (non-zero errno, transport error,
\* unparsable JSON) or the list of raw records, newest first
FailureKinds == {"errno", "transport", "badjson"}

FeedResponses ==
    {[kind |-> k, records |-> <<>>] : k \in FailureKinds}
        \cup {[kind |-> "ok", records |-> [i \in DOMAIN ids |-> RawRecord(ids[i])]] :
                ids \in SeqsUpTo(FeedIds, MaxFeedLen)}

\* mutant of PollResult: the item is returned but lastSeenId is not updated
PollResult_ForgetsId(last, resp) ==
    IF resp.kind /= "ok" THEN [item |-> None, last |-> last]
    ELSE IF resp.records = <<>> THEN [item |-> None, last |-> last]
    ELSE LET first == resp.records[1]
         IN  IF first.id = last THEN [item |-> None, last |-> last]
             ELSE [item |-> Some(FromApiResponse(first)), last |-> last]

\* poll(): the item returned (None or Some) and the new lastSeenId
PollResult(last, resp) ==
    IF resp.kind /= "ok" THEN [item |-> None, last |-> last]
    ELSE IF resp.records = <<>> THEN [item |-> None, last |-> last]
    ELSE LET first == resp.records[1]
         IN  IF first.id = last THEN [item |-> None, last |-> last]
             ELSE [item |-> Some(FromApiResponse(first)), last |-> first.id]

AnalyzerIdle ==
    /\ available = FALSE
    /\ news = None
    /\ backend = [kind |-> "none"]
    /\ result = None
    /\ trace = [prompts |-> 0, calls |-> 0, path |-> "none"]
    /\ builtPrompt = None
    /\ promptLog = {}
    /\ rawRecord = None
    /\ urlLog = <<>>
    /\ monitor = None
    /\ provider = None
    /\ providerLog = <<>>
    /\ cycleLog = <<>>

InitPoller ==
    /\ lastSeenId = ""
    /\ pollLog = <<>>
    /\ pc = "poll"
    /\ AnalyzerIdle

Poll ==
    /\ pc = "poll"
    /\ Len(pollLog) < MaxPolls
    /\ \E resp \in FeedResponses :
         LET r == PollResult(lastSeenId, resp)
         IN  /\ lastSeenId' = r.last
             /\ pollLog' = Append(pollLog,
                    [resp |-> resp, before |-> lastSeenId,
                     after |-> r.last, ret |-> r.item])
    /\ UNCHANGED <<available, news, backend, result, trace,
                 builtPrompt, promptLog, rawRecord, urlLog, monitor, cycleLog, pc,
                   provider, providerLog>>

NextPoller == Poll

SpecPoller == InitPoller /\ [][NextPoller]_vars

(***************************************************************************)
(* analyzer.py: EnhancedAnalyzer._analyze_fallback (the keyword scorer)    *)
(*                                                                         *)
(* A text is a sequence of characters; each character is written as an     *)
(* ASCII token ("li","hao" for the two characters of the positive marker). *)
(***************************************************************************)
positive_keywords ==
    << <<"zeng", "zhang">>,
       <<"shang", "zhang2">>,
       <<"tu", "po">>,
       <<"li", "hao">>,
       <<"zhi", "chi">>,
       <<"jia", "su">>,
       <<"kuo", "da">>,
       <<"chuang", "xin">>,
       <<"ying", "li">>,
       <<"chao", "yu", "qi">>,
       <<"hui", "sheng">>,
       <<"fan", "tan">>,
       <<"xin", "gao">> >>

negative_keywords ==
    << <<"xia", "die">>,
       <<"xia", "jiang">>,
       <<"kui", "sun">>,
       <<"li", "kong">>,
       <<"feng", "xian">>,
       <<"jing", "gao2">>,
       <<"bao", "die">>,
       <<"shou", "suo">>,
       <<"wei", "suo">>,
       <<"bu", "ji", "yu", "qi">>,
       <<"zan", "ting">>,
       <<"zhong", "zhi2">>,
       <<"chu", "fa">> >>

high_impact_keywords ==
    << <<"yang", "hang">>,
       <<"zheng", "ce">>,
       <<"jiang", "xi">>,
       <<"jia", "xi">>,
       <<"cai", "zheng">>,
       <<"zhong2", "da">>,
       <<"tu", "fa2">>,
       <<"bing", "gou">>,
       <<"zhong2", "zu">>,
       <<"tui", "shi">>,
       <<"shang", "shi">>,
       <<"guo", "wu", "yuan">>,
       <<"fa2", "gai", "wei2">> >>

\* industry name -> leader stocks, in the order of the dict
industry_keywords ==
    << [industry |-> <<"xin", "neng", "yuan2">>,
        leaders |-> << <<"NingDeShiDai">>, <<"BiYaDi">>, <<"LongJiLvNeng">> >>],
       [industry |-> <<"ban", "dao", "ti">>,
        leaders |-> << <<"ZhongXinGuoJi">>, <<"WeiErGuFen">>, <<"BeiFangHuaChuang">> >>],
       [industry |-> <<"ren", "gong", "zhi3", "neng">>,
        leaders |-> << <<"KeDaXunFei">>, <<"ShangTangKeJi">>, <<"HanWuJi">> >>],
       [industry |-> <<"yin", "hang">>,
        leaders |-> << <<"GongShangYinHang">>, <<"JianSheYinHang">>, <<"ZhaoShangYinHang">> >>],
       [industry |-> <<"bai", "jiu">>,
        leaders |-> << <<"GuiZhouMaoTai">>, <<"WuLiangYe">>, <<"LuZhouLaoJiao">> >>],
       [industry |-> <<"yi", "yao">>,
        leaders |-> << <<"HengRuiYiYao">>, <<"YaoMingKangDe">>, <<"MaiRuiYiLiao">> >>],
       [industry |-> <<"di", "chan">>,
        leaders |-> << <<"WanKeA">>, <<"BaoLiFaZhan">>, <<"ZhaoShangSheKou">> >>] >>

base_score == 5

\* str.lower(): only cased letters change
LowerChar(c) == IF c = "A" THEN "a" ELSE c
Lower(text) == [i \in DOMAIN text |-> LowerChar(text[i])]

\* sum(w for kw in keywords if kw in content)
RECURSIVE SumHits(_, _, _)
SumHits(keywords, content, w) ==
    IF keywords = <<>> THEN 0
    ELSE (IF Contains(content, Head(keywords)) THEN w ELSE 0)
            + SumHits(Tail(keywords), content, w)

Max(a, b) == IF a >= b THEN a ELSE b
Min(a, b) == IF a <= b THEN a ELSE b

\* max(1, min(10, score))
Clamp_NoUpper(score) == Max(1, score)
Clamp(score) == Max(1, Min(10, score))

\* base_score + sentiment_modifier + impact_score, before clamping
RawScore_ImpactOnce(positive_score, negative_score, impact_score) ==
    base_score + (positive_score - negative_score) + (impact_score \div 2)
RawScore(positive_score, negative_score, impact_score) ==
    base_score + (positive_score - negative_score) + impact_score

\* is_positive = positive_score > negative_score
IsPositive_NonStrict(positive_score, negative_score) == positive_score >= negative_score
IsPositive(positive_score, negative_score) == positive_score > negative_score

\* the loop over news.stocks, each rating given the base score
FallbackStockRatings_BaseScore(stocks, is_positive, score, matched) ==
    [i \in DOMAIN stocks |->
        [stock_name |-> stocks[i],
         is_positive |-> is_positive,
         score |-> base_score,
         reason |-> IF matched THEN <<"LIT_keyword_based_analysis">>
                    ELSE <<"LIT_neutral_impact">>]]

\* the loop over news.stocks
FallbackStockRatings(stocks, is_positive, score, matched) ==
    [i \in DOMAIN stocks |->
        [stock_name |-> stocks[i],
         is_positive |-> is_positive,
         score |-> score,
         reason |-> IF matched THEN <<"LIT_keyword_based_analysis">>
                    ELSE <<"LIT_neutral_impact">>]]

\* the loop over industry_keywords.items(), left at the first industry found
RECURSIVE FallbackIndustryRatings_FirstOnly(_, _, _, _)
FallbackIndustryRatings_FirstOnly(table, content, is_positive, score) ==
    IF table = <<>> THEN <<>>
    ELSE LET e == Head(table)
         IN  IF Contains(content, e.industry)
             THEN <<[industry_name |-> e.industry,
                     is_positive |-> is_positive,
                     score |-> score,
                     leader_stocks |-> e.leaders,
                     reason |-> <<"LIT_first_principles_of">> \o e.industry
                                    \o <<"LIT_industry_core_value">>]>>
             ELSE FallbackIndustryRatings_FirstOnly(Tail(table), content,
                                                    is_positive, score)

\* the loop over industry_keywords.items()
RECURSIVE FallbackIndustryRatings(_, _, _, _)
FallbackIndustryRatings(table, content, is_positive, score) ==
    IF table = <<>> THEN <<>>
    ELSE LET e == Head(table)
             rest == FallbackIndustryRatings(Tail(table), content, is_positive, score)
         IN  IF Contains(content, e.industry)
             THEN <<[industry_name |-> e.industry,
                     is_positive |-> is_positive,
                     score |-> score,
                     leader_stocks |-> e.leaders,
                     reason |-> <<"LIT_first_principles_of">> \o e.industry
                                    \o <<"LIT_industry_core_value">>]>> \o rest
             ELSE rest

AnalyzeFallback(item) ==
    LET content == Lower(item.content)
        positive_score == SumHits(positive_keywords, content, 1)
        negative_score == SumHits(negative_keywords, content, 1)
        impact_score == SumHits(high_impact_keywords, content, 2)
        is_positive == IsPositive(positive_score, negative_score)
        score == Clamp(RawScore(positive_score, negative_score, impact_score))
        matched == (positive_score + negative_score) > 0
        sentiment == IF is_positive THEN "LIT_positive"
                     ELSE IF negative_score > 0 THEN "LIT_negative"
                     ELSE "LIT_neutral"
    IN  [news_id |-> item.id,
         score |-> score,
         analysis |-> IF matched
                      THEN <<"LIT_keyword_analysis_this_news", sentiment,
                             "LIT_signal_clear">>
                      ELSE <<"LIT_this_news_rather_neutral">>,
         is_positive |-> is_positive,
         market_impact |-> IF is_positive THEN <<"LIT_may_stimulate_sector">>
                           ELSE IF negative_score > 0 THEN <<"LIT_may_hurt_sector">>
                           ELSE <<"LIT_limited_impact">>,
         stock_ratings |-> FallbackStockRatings(item.stocks, is_positive, score, matched),
         industry_ratings |-> FallbackIndustryRatings(industry_keywords, content,
                                                      is_positive, score)]

(***************************************************************************)
(* analyzer.py: the response parser.  The patterns of the code are         *)
(* evaluated on the characters of the response, leftmost match first,      *)
(* with the greedy / lazy choices of Python's re module.                   *)
(***************************************************************************)
IsColon(c) == c \in {"colon", "fcolon"}                  \* [：:]
IsSpace(c) == c \in {"sp", "nl"}                         \* \s
IsDigit(c) == c \in {"0", "1", "2", "3", "4", "5", "6", "7", "8", "9",
                     "digits4301"}                       \* \d
IsSeparator(c) == c \in {"comma", "fcomma", "dun"}       \* [,，、]

\* two tokens stand for a run of equal characters: "x50" for fifty letters x,
\* "digits4301" for 4301 digits 9; every other token is one character
CharLen(c) == IF c = "x50" THEN 50 ELSE IF c = "digits4301" THEN 4301 ELSE 1
RunUnit(c) == IF c = "x50" THEN "x" ELSE IF c = "digits4301" THEN "9" ELSE c

\* len(text)
RECURSIVE TextLen(_)
TextLen(s) == IF s = <<>> THEN 0 ELSE CharLen(Head(s)) + TextLen(Tail(s))

\* text[:n] with the slice forgotten
TakeChars_Whole(s, n) == s

\* text[:n]
RECURSIVE TakeChars(_, _)
TakeChars(s, n) ==
    IF s = <<>> \/ n <= 0 THEN <<>>
    ELSE IF CharLen(Head(s)) <= n
         THEN <<Head(s)>> \o TakeChars(Tail(s), n - CharLen(Head(s)))
         ELSE [k \in 1..n |-> RunUnit(Head(s))]

\* first position >= i that holds no white space (Len(s) + 1 if none)
RECURSIVE SkipSpaces(_, _)
SkipSpaces(s, i) ==
    IF i <= Len(s) /\ IsSpace(s[i]) THEN SkipSpaces(s, i + 1) ELSE i

\* first position >= i that holds no digit (Len(s) + 1 if none)
RECURSIVE DigitsEnd(_, _)
DigitsEnd(s, i) ==
    IF i <= Len(s) /\ IsDigit(s[i]) THEN DigitsEnd(s, i + 1) ELSE i

\* str.strip()
RECURSIVE StripLeft(_)
StripLeft(s) == IF s /= <<>> /\ IsSpace(Head(s)) THEN StripLeft(Tail(s)) ELSE s
RECURSIVE StripRight(_)
StripRight(s) ==
    IF s /= <<>> /\ IsSpace(s[Len(s)]) THEN StripRight(SubSeq(s, 1, Len(s) - 1)) ELSE s
Strip(s) == StripRight(StripLeft(s))

MinOf(S) == CHOOSE x \in S : \A y \in S : x <= y
MaxOf(S) == CHOOSE x \in S : \A y \in S : x >= y

\* int(digits): Python refuses a digit string of more than 4300 characters
\* (ValueError); otherwise the decimal value
MaxStrDigits == 4300
RECURSIVE DecimalValue(_, _)
DecimalValue(digits, acc) ==
    IF digits = <<>> THEN acc
    ELSE DecimalValue(Tail(digits),
                      acc * 10 + (CHOOSE d \in 0..9 : ToString(d) = Head(digits)))
ToInt(digits) ==
    IF TextLen(digits) > MaxStrDigits THEN None ELSE Some(DecimalValue(digits, 0))

\* what may follow a lazily matched group: (?:\n|$|##), (?:\n|$), (?:\n\n|$)
TermAt(s, k, kind) ==
    \/ k > Len(s)
    \/ (kind \in {"nl_end_hash", "nl_end"} /\ s[k] = "nl")
    \/ (kind = "nl_end_hash" /\ OccursAt(<<"hash", "hash">>, s, k))
    \/ (kind = "nlnl_end" /\ OccursAt(<<"nl", "nl">>, s, k))
    \/ (kind = "nlnl_end" /\ k = Len(s) /\ s[k] = "nl")

\* \s*(.+?)TERM tried at position p: the group's first and last position.
\* \s* takes all the white space it can and gives some back only when
\* nothing is left for the group; the group is as short as possible.
\* Without DOTALL the group holds no newline.
GroupAfter(s, p, dotall, kind) ==
    LET q == SkipSpaces(s, p)
        starts == IF q <= Len(s) THEN {q}
                  ELSE {b \in p..Len(s) : dotall \/ s[b] /= "nl"}
    IN  IF starts = {} THEN [ok |-> FALSE]
        ELSE LET b == MaxOf(starts)
                 ends == {e \in b..Len(s) :
                             /\ \A k \in b..e : dotall \/ s[k] /= "nl"
                             /\ TermAt(s, e + 1, kind)}
             IN  IF ends = {} THEN [ok |-> FALSE]
                 ELSE [ok |-> TRUE, from |-> b, to |-> MinOf(ends)]

\* re.search(label + r"[：:]\s*(.+?)" + TERM, s): the group of the first match
LabelledText(s, label, dotall, kind) ==
    LET hits == {i \in 1..Len(s) :
                    /\ OccursAt(label, s, i)
                    /\ i + Len(label) <= Len(s)
                    /\ IsColon(s[i + Len(label)])
                    /\ GroupAfter(s, i + Len(label) + 1, dotall, kind).ok}
    IN  IF hits = {} THEN None
        ELSE LET g == GroupAfter(s, MinOf(hits) + Len(label) + 1, dotall, kind)
             IN  Some(SubSeq(s, g.from, g.to))

\* re.search(r"评分[：:]\s*(\d+)" [+ "/10"], s): the digits of the first match
ScoreDigits(s, over10) ==
    LET label == <<"ping", "fen">>
        ok(i) == /\ OccursAt(label, s, i)
                 /\ i + 2 <= Len(s)
                 /\ IsColon(s[i + 2])
                 /\ LET j == SkipSpaces(s, i + 3)
                    IN  /\ j <= Len(s)
                        /\ IsDigit(s[j])
                        /\ over10 => OccursAt(<<"slash", "1", "0">>, s, DigitsEnd(s, j))
        hits == {i \in 1..Len(s) : ok(i)}
    IN  IF hits = {} THEN None
        ELSE LET j == SkipSpaces(s, MinOf(hits) + 3)
             IN  Some(SubSeq(s, j, DigitsEnd(s, j) - 1))

lihao == <<"li", "hao">>
likong == <<"li", "kong">>

\* one attempt of the stock-rating pattern with the dash at position i:
\* -\s*([^:：]+)[：:]\s*(利好|利空)\s*(\d+)/10\s*\|\s*(.+?)(?:\n|$)
StockMatchAt(s, i) ==
    LET colons == {c \in (i + 1)..Len(s) : IsColon(s[c])}
        c == MinOf(colons)
        a == IF SkipSpaces(s, i + 1) < c THEN SkipSpaces(s, i + 1) ELSE c - 1
        j1 == SkipSpaces(s, c + 1)
        j2 == SkipSpaces(s, j1 + 2)
        d == DigitsEnd(s, j2)
        j3 == SkipSpaces(s, d + 3)
        g == GroupAfter(s, j3 + 1, FALSE, "nl_end")
    IN  IF /\ i <= Len(s)
           /\ s[i] = "dash"
           /\ colons /= {}
           /\ c >= i + 2
           /\ (OccursAt(lihao, s, j1) \/ OccursAt(likong, s, j1))
           /\ j2 <= Len(s)
           /\ IsDigit(s[j2])
           /\ OccursAt(<<"slash", "1", "0">>, s, d)
           /\ j3 <= Len(s)
           /\ s[j3] = "bar"
           /\ g.ok
        THEN [ok |-> TRUE,
              stock_name |-> SubSeq(s, a, c - 1),
              sentiment |-> SubSeq(s, j1, j1 + 1),
              score_str |-> SubSeq(s, j2, d - 1),
              reason |-> SubSeq(s, g.from, g.to),
              next |-> IF g.to + 1 <= Len(s) THEN g.to + 2 ELSE g.to + 1]
        ELSE [ok |-> FALSE]

ReasonLimit == 100
TextLimit == 200
PolarityWindow == 100
MaxLeaders == 5
default_score == 5

\* _parse_stock_ratings: re.findall from position i on, one rating per match
\* whose score converts (a ValueError skips the match)
RECURSIVE ParseStockRatingsFrom(_, _)
ParseStockRatingsFrom(s, i) ==
    IF i > Len(s) THEN <<>>
    ELSE LET m == StockMatchAt(s, i)
         IN  IF ~m.ok THEN ParseStockRatingsFrom(s, i + 1)
             ELSE LET v == ToInt(m.score_str)
                      rest == ParseStockRatingsFrom(s, m.next)
                  IN  IF IsSome(v)
                      THEN <<[stock_name |-> Strip(m.stock_name),
                              is_positive |-> (m.sentiment = lihao),
                              score |-> Clamp(v.val),
                              reason |-> TakeChars(Strip(m.reason), ReasonLimit)]>>
                                \o rest
                      ELSE rest

ParseStockRatings(s) == ParseStockRatingsFrom(s, 1)

\* re.split(r"[,，、]", text)
RECURSIVE SplitOnSeparators(_, _)
SplitOnSeparators(s, cur) ==
    IF s = <<>> THEN <<cur>>
    ELSE IF IsSeparator(Head(s)) THEN <<cur>> \o SplitOnSeparators(Tail(s), <<>>)
    ELSE SplitOnSeparators(Tail(s), Append(cur, Head(s)))

\* [x.strip() for x in parts], the filter forgotten
StripNonEmpty_KeepsBlank(parts) == [k \in 1..Len(parts) |-> Strip(parts[k])]

\* [x.strip() for x in parts if x.strip()]
RECURSIVE StripNonEmpty(_)
StripNonEmpty(parts) ==
    IF parts = <<>> THEN <<>>
    ELSE IF Strip(Head(parts)) = <<>> THEN StripNonEmpty(Tail(parts))
    ELSE <<Strip(Head(parts))>> \o StripNonEmpty(Tail(parts))

\* text.find(pat): position of the first occurrence (0 when there is none,
\* where Python gives -1)
Find(s, pat) ==
    LET hits == {i \in 1..Len(s) : OccursAt(pat, s, i)}
    IN  IF hits = {} THEN 0 ELSE MinOf(hits)

unknown_industry == <<"wei3", "zhi4", "hang", "ye">>

\* _parse_industry_ratings without the marker test and the placeholder test
ParseIndustryRatings_KeepsUnknown(s) ==
    LET name_match == LabelledText(s, <<"hang", "ye", "ming", "cheng">>, FALSE, "nl_end")
    IN  <<[industry_name |-> IF IsSome(name_match) THEN Strip(name_match.val)
                             ELSE unknown_industry,
           is_positive |-> TRUE,
           score |-> default_score,
           leader_stocks |-> <<>>,
           reason |-> <<"ji3", "yu2", "hang", "ye", "ji3", "ben", "mian", "fen", "xi2">>]>>

\* _parse_industry_ratings
ParseIndustryRatings(s) ==
    IF ~Contains(s, <<"hang", "ye", "ping", "ji2">>) /\ ~Contains(s, <<"hang", "ye", "ming", "cheng">>)
    THEN <<>>
    ELSE
      LET name_match == LabelledText(s, <<"hang", "ye", "ming", "cheng">>, FALSE, "nl_end")
          industry_name == IF IsSome(name_match) THEN Strip(name_match.val)
                           ELSE unknown_industry
          dlabel == <<"ying2", "xiang", "fang", "xiang2">>
          dhits == {i \in 1..Len(s) :
                       /\ OccursAt(dlabel, s, i)
                       /\ i + 4 <= Len(s)
                       /\ IsColon(s[i + 4])
                       /\ LET j == SkipSpaces(s, i + 5)
                          IN  OccursAt(lihao, s, j) \/ OccursAt(likong, s, j)}
          is_positive == IF dhits = {} THEN TRUE
                         ELSE OccursAt(lihao, s, SkipSpaces(s, MinOf(dhits) + 5))
          start == Find(s, <<"hang", "ye">>)
          \* response_text[response_text.find("行业"):] ; find gives -1 when
          \* absent, and text[-1:] is the last character
          segment == IF start = 0 THEN Drop(s, Len(s)) ELSE Drop(s, start)
          digits == ScoreDigits(segment, TRUE)
          value == IF IsSome(digits) THEN ToInt(digits.val) ELSE Some(default_score)
          leaders_match == LabelledText(s, <<"long", "tou", "gu", "piao">>, FALSE, "nl_end")
          leader_stocks == IF IsSome(leaders_match)
                           THEN StripNonEmpty(
                                    SplitOnSeparators(Strip(leaders_match.val), <<>>))
                           ELSE <<>>
          fp_match == LabelledText(s, <<"di2", "yi2", "xing", "yuan3", "li2", "fen", "xi2">>, TRUE, "nlnl_end")
          reason == IF IsSome(fp_match) THEN TakeChars(Strip(fp_match.val), TextLimit)
                    ELSE <<"ji3", "yu2", "hang", "ye", "ji3", "ben", "mian", "fen", "xi2">>
      IN  IF ~IsSome(value) THEN <<>>          \* ValueError, caught: no rating
          ELSE IF industry_name = unknown_industry THEN <<>>
          ELSE <<[industry_name |-> industry_name,
                  is_positive |-> is_positive,
                  score |-> Clamp(value.val),
                  leader_stocks |-> Take(leader_stocks, MaxLeaders),
                  reason |-> reason]>>

\* _parse_analysis_response on a text: None when an exception is caught
\* (the overall score does not convert), else the AnalysisResult
ParseAnalysisResponse(item, s) ==
    LET digits == ScoreDigits(s, FALSE)
        value == IF IsSome(digits) THEN ToInt(digits.val) ELSE Some(default_score)
        is_positive == Contains(s, lihao) /\ ~Contains(TakeChars(s, PolarityWindow), likong)
        impact_match == LabelledText(s, <<"shi", "chang", "ying2", "xiang">>, TRUE, "nl_end_hash")
        analysis_match == LabelledText(s, <<"fen", "xi2">>, TRUE, "nl_end_hash")
    IN  IF ~IsSome(value) THEN None
        ELSE Some([news_id |-> item.id,
                   score |-> Clamp(value.val),
                   analysis |-> IF IsSome(analysis_match)
                                THEN TakeChars(Strip(analysis_match.val), TextLimit)
                                ELSE TakeChars(s, TextLimit),
                   is_positive |-> is_positive,
                   market_impact |-> IF IsSome(impact_match)
                                     THEN TakeChars(Strip(impact_match.val), TextLimit)
                                     ELSE <<"zan", "wu2", "xiang3", "xi3", "fen", "xi2">>,
                   stock_ratings |-> ParseStockRatings(s),
                   industry_ratings |-> ParseIndustryRatings(s)])

(***************************************************************************)
(* models.py: NewsItem.publish_time / display_time, and                    *)
(* analyzer.py: _build_analysis_prompt, analyze, _analyze_with_ai          *)
(***************************************************************************)
\* the last second of datetime.MAXYEAR: datetime.fromtimestamp raises
\* ValueError beyond it
MaxTimestamp == <<"2", "5", "3", "4", "0", "2", "3", "0", "0", "7", "9", "9">>

\* a <= b for decimal digit sequences without sign or leading zeros
RECURSIVE DigitsLeq(_, _)
DigitsLeq(a, b) ==
    IF Len(a) /= Len(b) THEN Len(a) < Len(b)
    ELSE IF a = <<>> THEN TRUE
    ELSE IF Head(a) = Head(b) THEN DigitsLeq(Tail(a), Tail(b))
    ELSE DecimalValue(<<Head(a)>>, 0) < DecimalValue(<<Head(b)>>, 0)

\* display_time: the formatted time, or None when fromtimestamp raises
DisplayTime(ctime) ==
    IF DigitsLeq(ctime, MaxTimestamp) THEN Some(<<"LIT_time_of">> \o ctime)
    ELSE None

\* ", ".join(names)
RECURSIVE JoinNames(_)
JoinNames(names) ==
    IF names = <<>> THEN <<>>
    ELSE IF Len(names) = 1 THEN Head(names)
    ELSE Head(names) \o <<"comma", "sp">> \o JoinNames(Tail(names))

wu == <<"wu2">>

\* ", ".join(xs) if xs else the "none" marker
NamesStr(names) == IF names /= <<>> THEN JoinNames(names) ELSE wu

\* has_specific_stocks taking subjects for stocks as well
has_specific_stocks_OrSubjects(item) == item.stocks /= <<>> \/ item.subjects /= <<>>
\* bool(self.stocks)
has_specific_stocks(item) == item.stocks /= <<>>

\* is_industry_event without the "no stocks" case
is_industry_event_SubjectsOnly(item) == item.subjects /= <<>>
\* not self.stocks or bool(self.subjects)
is_industry_event(item) == item.stocks = <<>> \/ item.subjects /= <<>>

\* _build_analysis_prompt: None when it raises (display_time), else the
\* prompt: its interpolated fields and which conditional sections it carries
BuildAnalysisPrompt(item) ==
    LET stocks_str == NamesStr(item.stocks)
        subjects_str == NamesStr(item.subjects)
        stock_analysis_section == has_specific_stocks(item)
        industry_analysis_section == is_industry_event(item) \/ subjects_str /= wu
        display_time == DisplayTime(item.ctime)
    IN  IF ~IsSome(display_time) THEN None
        ELSE Some([content |-> item.content,
                   stocks_str |-> stocks_str,
                   subjects_str |-> subjects_str,
                   display_time |-> display_time.val,
                   overall_section |-> TRUE,
                   stock_analysis_section |-> stock_analysis_section,
                   industry_analysis_section |-> industry_analysis_section,
                   rubric |-> TRUE])

\* what provider.analyze(prompt) does when called:
\*   none    - returns None          empty   - returns ""
\*   raise   - raises an exception   nontext - returns a non-empty non-str value
\*   text    - returns the non-empty text b.text
BackendKinds == {"none", "empty", "raise", "nontext", "text"}

\* `if response:` with "" taken for a response
Truthy_NotNone(b) == b.kind \in {"empty", "nontext", "text"}
\* `if response:`
Truthy(b) == b.kind = "nontext" \/ (b.kind = "text" /\ b.text /= <<>>)

\* _parse_analysis_response(news, response): the patterns raise TypeError on a
\* value that is not a str, which the method's except turns into None
ParseResponse(item, b) ==
    IF b.kind = "text" THEN ParseAnalysisResponse(item, b.text)
    ELSE IF b.kind = "empty" THEN ParseAnalysisResponse(item, <<>>)
    ELSE None

\* _analyze_with_ai: the value returned, the prompts built, the calls of
\* provider.analyze and the branch taken
AnalyzeWithAI(item, b) ==
    LET prompt == BuildAnalysisPrompt(item)
        fallback == Some(AnalyzeFallback(item))
    IN  IF ~IsSome(prompt)
        THEN [result |-> fallback, prompts |-> 0, calls |-> 0, path |-> "fallback"]
        ELSE IF b.kind = "raise"
        THEN [result |-> fallback, prompts |-> 1, calls |-> 1, path |-> "fallback"]
        ELSE IF Truthy(b)
        THEN [result |-> ParseResponse(item, b), prompts |-> 1, calls |-> 1,
              path |-> "ai"]
        ELSE [result |-> fallback, prompts |-> 1, calls |-> 1, path |-> "fallback"]

\* analyze without the availability check
AnalyzeNews_NoAvailabilityCheck(is_available, item, b) == AnalyzeWithAI(item, b)
\* analyze
AnalyzeNews(is_available, item, b) ==
    IF is_available THEN AnalyzeWithAI(item, b)
    ELSE [result |-> Some(AnalyzeFallback(item)), prompts |-> 0, calls |-> 0,
          path |-> "fallback"]

(***************************************************************************)
(* Items the fallback scorer is applied to.                                *)
(***************************************************************************)
MaxContentPieces == 3

\* phrases a news body is put together from: single keywords, a phrase whose
\* keywords overlap, phrases with several keywords, an industry name followed
\* by an upper-case letter, a second industry name, and neutral text
ContentPieces ==
    { <<"li", "hao">>,
      <<"chuang", "xin", "gao">>,
      <<"feng", "xian">>,
      <<"xia", "die", "kui", "sun", "bao", "die">>,
      <<"jing", "gao2", "shou", "suo", "li", "kong">>,
      <<"yang", "hang">>,
      <<"zheng", "ce", "jiang", "xi">>,
      <<"yin", "hang", "A">>,
      <<"bai", "jiu">>,
      <<"tian", "qi2">> }

Contents == {Flatten(ps) : ps \in SeqsUpTo(ContentPieces, MaxContentPieces)}

\* (subjects, stocks) of the items: neither, stocks only, subjects only, both
Attachments ==
    { [subjects |-> <<>>, stocks |-> <<>>],
      [subjects |-> <<>>, stocks |-> << <<"GongShangYinHang">>, <<"JianSheYinHang">> >>],
      [subjects |-> << <<"yin", "hang">> >>, stocks |-> <<>>],
      [subjects |-> << <<"yin", "hang">> >>, stocks |-> << <<"GongShangYinHang">> >>] }

NewsItem(id, content, ctime, subjects, stocks) ==
    [id |-> id, title |-> "t", content |-> content, ctime |-> ctime,
     subjects |-> subjects, stocks |-> stocks]

FallbackItems ==
    {NewsItem("101", c, RawRecord("101").ctime, a.subjects, a.stocks) :
        c \in Contents, a \in Attachments}

InitFallback ==
    /\ lastSeenId = ""
    /\ pollLog = <<>>
    /\ available = FALSE
    /\ news \in {Some(n) : n \in FallbackItems}
    /\ backend = [kind |-> "none"]
    /\ result = None
    /\ trace = [prompts |-> 0, calls |-> 0, path |-> "none"]
    /\ builtPrompt = None
    /\ promptLog = {}
    /\ rawRecord = None
    /\ urlLog = <<>>
    /\ monitor = None
    /\ provider = None
    /\ providerLog = <<>>
    /\ cycleLog = <<>>
    /\ pc = "ready"

\* one call of _analyze_fallback(news)
Fallback ==
    /\ pc = "ready"
    /\ result' = Some(AnalyzeFallback(news.val))
    /\ trace' = [trace EXCEPT !.path = "fallback"]
    /\ pc' = "done"
    /\ UNCHANGED <<lastSeenId, pollLog, available, news, backend,
                 builtPrompt, promptLog, rawRecord, urlLog, monitor, cycleLog,
                   provider, providerLog>>

NextFallback == Fallback

SpecFallback == InitFallback /\ [][NextFallback]_vars

(***************************************************************************)
(* One call of analyze(news) on an analyzer whose provider's availability  *)
(* and behaviour are fixed at construction.                                *)
(***************************************************************************)
MaxResponseLines == 2

\* lines a backend response is put together from
ResponseLines ==
    { <<"ping", "fen", "fcolon", "8">>,                            \* overall 8
      <<"ping", "fen", "colon", "sp", "1", "5">>,                  \* overall 15
      <<"ping", "fen", "fcolon", "0">>,                            \* overall 0
      <<"ping", "fen", "fcolon", "digits4301">>,                   \* 4301 digits
      <<"ying2", "xiang", "fcolon", "li", "hao">>,                 \* direction
      <<"dash", "sp", "jia2", "colon", "sp", "li", "hao", "sp",
        "1", "5", "slash", "1", "0", "sp", "bar", "sp", "x">>,     \* stock 15/10
      <<"dash", "sp", "yi3", "colon", "sp", "li", "kong", "sp",
        "0", "slash", "1", "0", "sp", "bar", "sp", "x">>,          \* stock 0/10
      <<"hang", "ye", "ming", "cheng", "colon", "sp",
        "yin", "hang">>,                                           \* industry
      <<"ping", "fen", "colon", "sp", "9", "9", "9",
        "slash", "1", "0">>,                                       \* 999/10
      <<"ping", "fen", "colon", "sp", "0", "slash", "1", "0">> }   \* 0/10

\* "\n".join(lines)
RECURSIVE JoinLines(_)
JoinLines(lines) ==
    IF lines = <<>> THEN <<>>
    ELSE IF Len(lines) = 1 THEN Head(lines)
    ELSE Head(lines) \o <<"nl">> \o JoinLines(Tail(lines))

ResponseTexts ==
    {JoinLines(ls) : ls \in SeqsUpTo(ResponseLines, MaxResponseLines)} \ {<<>>}

Backends ==
    {[kind |-> k] : k \in BackendKinds \ {"text"}}
        \cup {[kind |-> "text", text |-> t] : t \in ResponseTexts}

\* a timestamp of the year 2024 and one in milliseconds (year 33658)
Timestamps ==
    { RawRecord("101").ctime,
      <<"1", "0", "0", "0", "0", "0", "0", "0", "0", "0", "0", "0", "0">> }

AnalyzerContents ==
    { <<"tian", "qi2">>,
      <<"yang", "hang">> \o <<"li", "hao">> \o <<"yin", "hang", "A">>,
      <<"feng", "xian">> }

AnalyzerItems ==
    {NewsItem("101", c, t, a.subjects, a.stocks) :
        c \in AnalyzerContents, t \in Timestamps, a \in Attachments}

InitAnalyzer ==
    /\ lastSeenId = ""
    /\ pollLog = <<>>
    /\ available \in BOOLEAN
    /\ news \in {Some(n) : n \in AnalyzerItems}
    /\ backend \in Backends
    /\ result = None
    /\ trace = [prompts |-> 0, calls |-> 0, path |-> "none"]
    /\ builtPrompt = None
    /\ promptLog = {}
    /\ rawRecord = None
    /\ urlLog = <<>>
    /\ monitor = None
    /\ provider = None
    /\ providerLog = <<>>
    /\ cycleLog = <<>>
    /\ pc = "ready"

\* one call of analyze(news)
Analyze ==
    /\ pc = "ready"
    /\ LET r == AnalyzeNews(available, news.val, backend)
       IN  /\ result' = r.result
           /\ trace' = [prompts |-> r.prompts, calls |-> r.calls, path |-> r.path]
           /\ builtPrompt' = IF r.prompts = 1 THEN BuildAnalysisPrompt(news.val) ELSE None
    /\ pc' = "done"
    /\ UNCHANGED <<lastSeenId, pollLog, available, news, backend, promptLog,
                 rawRecord, urlLog, monitor, cycleLog,
                   provider, providerLog>>

NextAnalyzer == Analyze

SpecAnalyzer == InitAnalyzer /\ [][NextAnalyzer]_vars

(***************************************************************************)
(* Fallback scorer claims (checked under SpecFallback).                    *)
(***************************************************************************)
\* number of keywords of a list present in the lowercased content of the item
Hits(keywords) ==
    Cardinality({k \in DOMAIN keywords :
                    Contains(Lower(news.val.content), keywords[k])})

positiveHits == Hits(positive_keywords)
negativeHits == Hits(negative_keywords)
highImpactHits == Hits(high_impact_keywords)

\* the three hit counts of the item under analysis
HitCounts == [p |-> positiveHits, n |-> negativeHits, i |-> highImpactHits]

Expected(h) ==
    LET raw == 5 + (h.p - h.n) + 2 * h.i
    IN  IF raw < 1 THEN 1 ELSE IF raw > 10 THEN 10 ELSE raw

\* C9: the fallback score is clamp(5 + (positiveHits - negativeHits)
\* + 2 * highImpactHits, 1, 10), isPositive is positiveHits > negativeHits,
\* each keyword counting once; content without keywords scores 5, not positive.
C9_FallbackScore ==
    pc = "done" =>
        LET h == HitCounts IN
        /\ result.val.score = Expected(h)
        /\ result.val.is_positive = (h.p > h.n)
        /\ (h.p + h.n + h.i = 0) =>
              (result.val.score = 5 /\ ~result.val.is_positive)

\* a scored item with as many positive as negative hits (at least one each)
\* and a high-impact hit
C9_Witness ==
    /\ pc = "done"
    /\ LET h == HitCounts IN
       /\ h.p = h.n
       /\ h.p > 0
       /\ h.i > 0
       /\ result.val.score = 5 + 2 * h.i

\* C10 (as claimed): more positive than negative hits gives isPositive and
\* score > 5; more negative than positive hits gives not isPositive and
\* score < 5.
C10_SameSideAsSentiment ==
    pc = "done" =>
        LET h == HitCounts IN
        /\ h.p > h.n =>
              (result.val.is_positive /\ result.val.score > 5)
        /\ h.n > h.p =>
              (~result.val.is_positive /\ result.val.score < 5)

\* C10 (amended): more positive than negative hits gives isPositive and
\* score > 5; more negative than positive hits gives not isPositive, and
\* score < 5 exactly when the surplus of negative hits exceeds twice the
\* number of high-impact hits (so always when no high-impact keyword matches).
C10_SameSideUnlessImpact ==
    pc = "done" =>
        LET h == HitCounts IN
        /\ h.p > h.n =>
              (result.val.is_positive /\ result.val.score > 5)
        /\ h.n > h.p =>
              /\ ~result.val.is_positive
              /\ (result.val.score < 5) <=>
                    (h.n - h.p > 2 * h.i)

\* negative sentiment lifted to the base score or above by high-impact hits
C10_Witness ==
    /\ pc = "done"
    /\ LET h == HitCounts IN
       /\ h.n > h.p
       /\ h.i > 0
       /\ ~result.val.is_positive
       /\ result.val.score >= 5

(***************************************************************************)
(* Poller claims (checked under SpecPoller).                               *)
(***************************************************************************)
OkNonEmpty(e) == e.resp.kind = "ok" /\ e.resp.records /= <<>>
FirstId(e) == e.resp.records[1].id
Silent(e) == e.resp.kind /= "ok" \/ e.resp.records = <<>>

\* identifiers of the items returned so far, oldest first
RECURSIVE ReturnedIds(_)
ReturnedIds(log) ==
    IF log = <<>> THEN <<>>
    ELSE LET e == log[Len(log)]
             before == ReturnedIds(SubSeq(log, 1, Len(log) - 1))
         IN  IF IsSome(e.ret) THEN Append(before, e.ret.val.id) ELSE before

\* C1 (as claimed): no item identifier is returned by more than one poll of
\* one poller instance, whatever the feed answers.
C1_NoIdReturnedTwice ==
    \A i, j \in DOMAIN pollLog :
        (i < j /\ IsSome(pollLog[i].ret) /\ IsSome(pollLog[j].ret))
            => pollLog[i].ret.val.id /= pollLog[j].ret.val.id

\* C2: two consecutive successful polls whose first record has the same
\* identifier x, x not being lastSeenId before the first of them: the first
\* returns a NewsItem with id x, the second returns none.
C2_SameIdTwice ==
    \A i \in DOMAIN pollLog :
        (/\ i + 1 \in DOMAIN pollLog
         /\ OkNonEmpty(pollLog[i])
         /\ OkNonEmpty(pollLog[i + 1])
         /\ FirstId(pollLog[i]) = FirstId(pollLog[i + 1])
         /\ FirstId(pollLog[i]) /= pollLog[i].before)
            => /\ IsSome(pollLog[i].ret)
               /\ pollLog[i].ret.val.id = FirstId(pollLog[i])
               /\ pollLog[i + 1].ret = None

\* the case of C2 from a poller that has already returned another item
C2_Witness ==
    \E i \in DOMAIN pollLog :
        /\ i + 1 \in DOMAIN pollLog
        /\ OkNonEmpty(pollLog[i])
        /\ OkNonEmpty(pollLog[i + 1])
        /\ FirstId(pollLog[i]) = FirstId(pollLog[i + 1])
        /\ pollLog[i].before \notin {"", FirstId(pollLog[i])}
        /\ IsSome(pollLog[i].ret)
        /\ pollLog[i + 1].ret = None

\* C3: a successful poll of a non-empty list looks at the first record only:
\* it returns none or the item of the first record, lastSeenId is the first
\* record's id afterwards, and lastSeenId is always empty (nothing returned
\* yet) or the id of the most recently returned item.
C3_FirstRecordOnly ==
    /\ \A i \in DOMAIN pollLog :
          OkNonEmpty(pollLog[i]) =>
              /\ pollLog[i].after = FirstId(pollLog[i])
              /\ IsSome(pollLog[i].ret) =>
                    pollLog[i].ret.val.id = FirstId(pollLog[i])
    /\ LET ids == ReturnedIds(pollLog)
       IN  IF ids = <<>> THEN lastSeenId = "" ELSE lastSeenId = ids[Len(ids)]

\* a poll whose list holds, after the first record, a record never returned
\* before, and which returned the first record's item
C3_Witness ==
    \E i \in DOMAIN pollLog :
        /\ Len(pollLog[i].resp.records) >= 2
        /\ IsSome(pollLog[i].ret)
        /\ \E k \in 2..Len(pollLog[i].resp.records) :
              /\ pollLog[i].resp.records[k].id /= FirstId(pollLog[i])
              /\ pollLog[i].resp.records[k].id
                    \notin Range(ReturnedIds(SubSeq(pollLog, 1, i - 1)))
        /\ lastSeenId = FirstId(pollLog[i])

\* C4: a failed fetch (errno, transport, unparsable JSON) or an empty list
\* gives none and leaves lastSeenId alone; the next successful poll still
\* returns none for the id seen before the failure and the item otherwise.
C4_FailureKeepsState ==
    \A i \in DOMAIN pollLog :
        Silent(pollLog[i]) =>
            /\ pollLog[i].ret = None
            /\ pollLog[i].after = pollLog[i].before
            /\ (i + 1 \in DOMAIN pollLog /\ OkNonEmpty(pollLog[i + 1])) =>
                  IF FirstId(pollLog[i + 1]) = pollLog[i].before
                  THEN pollLog[i + 1].ret = None
                  ELSE /\ IsSome(pollLog[i + 1].ret)
                       /\ pollLog[i + 1].ret.val.id = FirstId(pollLog[i + 1])

\* an item was returned, then a fetch failed, then the same id came again
\* and was suppressed
C4_Witness ==
    \E i \in DOMAIN pollLog :
        /\ pollLog[i].resp.kind \in FailureKinds
        /\ pollLog[i].before /= ""
        /\ i + 1 \in DOMAIN pollLog
        /\ OkNonEmpty(pollLog[i + 1])
        /\ FirstId(pollLog[i + 1]) = pollLog[i].before
        /\ pollLog[i + 1].ret = None

(***************************************************************************)
(* Analysis engine claims (checked under SpecAnalyzer).                    *)
(***************************************************************************)
\* C5: analyze(item) returns an AnalysisResult, never none, whatever the
\* backend does (unavailable, raising, empty, or a non-empty response on
\* which the response parser fails).
C5_AlwaysRates ==
    pc = "done" => IsSome(result)

\* the scores of a result: overall, per stock, per industry
ScoresOf(r) ==
    {r.score}
        \cup {r.stock_ratings[i].score : i \in DOMAIN r.stock_ratings}
        \cup {r.industry_ratings[i].score : i \in DOMAIN r.industry_ratings}

C7_InvokedExactlyOnce ==
    pc = "done" =>
        /\ ~available =>
              /\ trace.calls = 0
              /\ trace.prompts = 0
              /\ result = Some(AnalyzeFallback(news.val))
        /\ available => trace.calls = 1

\* C7 (amended): an unavailable backend is not invoked, no prompt is built
\* and the result is the fallback scorer's; an available backend is invoked
\* at most once per analyze call: exactly once when the prompt can be built,
\* and not at all when the item's timestamp cannot be formatted, in which case
\* the result is the fallback scorer's.
C7_InvokedOnceIfPromptBuilt ==
    pc = "done" =>
        /\ ~available =>
              /\ trace.calls = 0
              /\ trace.prompts = 0
              /\ result = Some(AnalyzeFallback(news.val))
        /\ available =>
              IF DigitsLeq(news.val.ctime, MaxTimestamp)
              THEN trace.calls = 1 /\ trace.prompts = 1
              ELSE /\ trace.calls = 0
                   /\ trace.prompts = 0
                   /\ result = Some(AnalyzeFallback(news.val))

\* an available backend that was never invoked: the prompt could not be built
C7_Witness ==
    /\ pc = "done"
    /\ available
    /\ backend.kind = "text"
    /\ trace.calls = 0
    /\ ~DigitsLeq(news.val.ctime, MaxTimestamp)
    /\ result = Some(AnalyzeFallback(news.val))

\* C8: every score of every AnalysisResult returned by analyze (overall, per
\* stock, per industry), on the backend path and on the fallback path, lies
\* in 1..10.
C8_ScoresInRange ==
    (pc = "done" /\ IsSome(result)) =>
        \A x \in ScoresOf(result.val) : x \in 1..10

\* a backend response declaring an industry score of 999 was parsed into a
\* rating with score 10
C8_Witness ==
    /\ pc = "done"
    /\ trace.path = "ai"
    /\ backend.kind = "text"
    /\ Contains(backend.text, <<"9", "9", "9", "slash", "1", "0">>)
    /\ IsSome(result)
    /\ result.val.industry_ratings /= <<>>
    /\ result.val.industry_ratings[1].score = 10

(***************************************************************************)
(* Fallback rating lists (checked under SpecFallback).                     *)
(***************************************************************************)
\* the stock ratings of the result are one per stock of the item, in order,
\* with the stock's name and the overall score and polarity, and the reason
\* text chosen by keyworded
StockRatingsFollowItem(keyworded) ==
    LET r == result.val
        stocks == news.val.stocks
    IN  /\ Len(r.stock_ratings) = Len(stocks)
        /\ \A i \in DOMAIN stocks :
              /\ r.stock_ratings[i].stock_name = stocks[i]
              /\ r.stock_ratings[i].score = r.score
              /\ r.stock_ratings[i].is_positive = r.is_positive
              /\ r.stock_ratings[i].reason =
                    IF keyworded THEN <<"LIT_keyword_based_analysis">>
                    ELSE <<"LIT_neutral_impact">>

\* C11 (as claimed): one stock rating per stock of the item, in order, same
\* names, overall score and polarity; the reason is the keyword-based text
\* when a positive, negative or high-impact keyword matched and the
\* neutral-impact text otherwise; no stocks, no stock ratings.
C11_ReasonOnAnyKeyword ==
    pc = "done" =>
        LET h == HitCounts IN StockRatingsFollowItem(h.p + h.n + h.i > 0)

\* C11 (amended): one stock rating per stock of the item, in order, same
\* names, overall score and polarity; the reason is the keyword-based text
\* when a positive or negative keyword matched and the neutral-impact text
\* otherwise (high-impact keywords do not count); no stocks, no stock ratings.
C11_ReasonOnSentimentKeyword ==
    pc = "done" =>
        LET h == HitCounts IN StockRatingsFollowItem(h.p + h.n > 0)

\* two stocks rated with the neutral-impact reason although a high-impact
\* keyword raised the score
C11_Witness ==
    /\ pc = "done"
    /\ Len(news.val.stocks) = 2
    /\ LET h == HitCounts IN h.p + h.n = 0 /\ h.i > 0
    /\ Len(result.val.stock_ratings) = 2
    /\ result.val.stock_ratings[2].score = 7
    /\ result.val.stock_ratings[2].reason = <<"LIT_neutral_impact">>

\* the fixed leader list of an industry name
LeadersOf(name) ==
    LET k == CHOOSE j \in DOMAIN industry_keywords :
                 industry_keywords[j].industry = name
    IN  industry_keywords[k].leaders

\* C12: the fallback result has an industry rating for a fixed industry name
\* exactly when the name is a substring of the lowercased content, whatever
\* the subjects and stocks of the item; at most one rating per industry, each
\* with the overall score and polarity and the industry's fixed list of at
\* most 3 leaders; an item without stocks and subjects gets no stock ratings.
C12_IndustryIffInContent ==
    pc = "done" =>
        LET r == result.val
            ir == r.industry_ratings
            content == Lower(news.val.content)
        IN  /\ \A k \in DOMAIN industry_keywords :
                  (\E i \in DOMAIN ir :
                       ir[i].industry_name = industry_keywords[k].industry)
                     <=> Contains(content, industry_keywords[k].industry)
            /\ \A i, j \in DOMAIN ir :
                  ir[i].industry_name = ir[j].industry_name => i = j
            /\ \A i \in DOMAIN ir :
                  /\ \E k \in DOMAIN industry_keywords :
                        ir[i].industry_name = industry_keywords[k].industry
                  /\ ir[i].score = r.score
                  /\ ir[i].is_positive = r.is_positive
                  /\ ir[i].leader_stocks = LeadersOf(ir[i].industry_name)
                  /\ Len(ir[i].leader_stocks) <= 3
            /\ (news.val.stocks = <<>> /\ news.val.subjects = <<>>) =>
                  r.stock_ratings = <<>>

\* an item with a stock and no subject whose content names one industry twice
\* and another once: two industry ratings, in the order of the table
C12_Witness ==
    /\ pc = "done"
    /\ news.val.subjects = <<>>
    /\ news.val.stocks /= <<>>
    /\ news.val.content = <<"yin", "hang", "A", "bai", "jiu", "yin", "hang", "A">>
    /\ Len(result.val.industry_ratings) = 2
    /\ result.val.industry_ratings[1].industry_name = <<"yin", "hang">>
    /\ result.val.industry_ratings[2].industry_name = <<"bai", "jiu">>

(***************************************************************************)
(* The response parser applied to response texts.                          *)
(***************************************************************************)
MaxParserPieces == 2

\* pieces a response text is put together from (joined by newlines)
ParserPieces ==
    { <<"ping", "fen", "fcolon", "8">>,                               \* score 8
      <<"ping", "fen", "colon", "sp", "1", "5">>,                     \* score 15
      <<"ping", "fen", "fcolon", "0">>,                               \* score 0
      <<"ping", "fen", "fcolon", "dash", "3">>,                       \* score -3
      <<"ying2", "xiang", "fcolon", "li", "hao">>,                    \* positive
      <<"ying2", "xiang", "fcolon", "li", "kong">>,                   \* negative
      <<"x50", "x50", "li", "kong">>,              \* negative after 100 chars
      <<"dash", "sp", "jia2", "colon", "sp", "li", "hao", "sp",
        "1", "5", "slash", "1", "0", "sp", "bar", "sp", "x">>,        \* stock line
      <<"dash", "sp", "yi3", "colon", "sp", "li", "kong", "sp",
        "0", "slash", "1", "0", "sp", "bar", "sp",
        "x50", "x50", "x">>,                           \* stock line, long reason
      <<"dash", "sp", "x", "sp", "x">>,                 \* list line, no rating
      <<"dash", "sp", "x", "colon", "sp", "li", "hao", "sp",
        "digits4301", "slash", "1", "0", "sp", "bar", "sp", "x">>,    \* bad score
      <<"hang", "ye", "ming", "cheng", "colon", "sp", "yin", "hang", "nl",
        "ying2", "xiang", "fang", "xiang2", "colon", "sp", "li", "kong", "nl",
        "ping", "fen", "colon", "sp", "0", "slash", "1", "0", "nl",
        "long", "tou", "gu", "piao", "colon", "sp",
        "jia2", "comma", "sp", "yi3">>,                               \* block 1
      <<"hang", "ye", "ming", "cheng", "colon", "sp", "bai", "jiu", "nl",
        "ping", "fen", "colon", "sp", "9", "9", "9",
        "slash", "1", "0">>,                                          \* block 2
      <<"hang", "ye", "ping", "ji2", "fcolon", "nl",
        "ying2", "xiang", "fang", "xiang2", "colon", "sp", "li", "hao", "nl",
        "ping", "fen", "colon", "sp", "9", "slash", "1", "0", "nl",
        "long", "tou", "gu", "piao", "colon", "sp", "jia2">>,    \* block, no name
      <<"hang", "ye", "ming", "cheng", "colon", "sp",
        "wei3", "zhi4", "hang", "ye">>,                     \* placeholder name
      <<"ping", "fen", "fcolon", "digits4301">>,            \* score, 4301 digits
      <<"shi", "chang", "ying2", "xiang", "fcolon", "x">>,  \* market impact
      <<"fen", "xi2", "fcolon", "x">>,                      \* analysis
      <<"hang", "ye", "ming", "cheng", "colon", "yi", "yao", "nl",
        "long", "tou", "gu", "piao", "colon",
        "jia2", "comma", "sp", "comma", "yi3", "fcomma", "x", "dun",
        "a", "comma", "A", "comma", "jia2", "nl",
        "di2", "yi2", "xing", "yuan3", "li2", "fen", "xi2", "colon",
        "shi", "chang", "ying2", "xiang", "fcolon",
        "x50", "x50", "x50", "x50", "x">> }    \* block 3: long texts, 7 leaders

ParserTexts == {JoinLines(ps) : ps \in SeqsUpTo(ParserPieces, MaxParserPieces)}

InitParser ==
    /\ lastSeenId = ""
    /\ pollLog = <<>>
    /\ available = TRUE
    /\ news = Some(NewsItem("101", <<"tian", "qi2">>, RawRecord("101").ctime,
                            <<>>, <<>>))
    /\ backend \in {[kind |-> "text", text |-> t] : t \in ParserTexts}
    /\ result = None
    /\ trace = [prompts |-> 0, calls |-> 0, path |-> "none"]
    /\ builtPrompt = None
    /\ promptLog = {}
    /\ rawRecord = None
    /\ urlLog = <<>>
    /\ monitor = None
    /\ provider = None
    /\ providerLog = <<>>
    /\ cycleLog = <<>>
    /\ pc = "ready"

\* one call of _parse_analysis_response(news, response_text)
Parse ==
    /\ pc = "ready"
    /\ result' = ParseAnalysisResponse(news.val, backend.text)
    /\ trace' = [trace EXCEPT !.path = "parse"]
    /\ pc' = "done"
    /\ UNCHANGED <<lastSeenId, pollLog, available, news, backend,
                 builtPrompt, promptLog, rawRecord, urlLog, monitor, cycleLog,
                   provider, providerLog>>

NextParser == Parse

SpecParser == InitParser /\ [][NextParser]_vars

(***************************************************************************)
(* Response parser claims (checked under SpecParser).                      *)
(***************************************************************************)
\* the integer written after the score label at position i, with its sign:
\* label, colon, optional white space, optional minus sign, digits
DeclaredAt(s, i) ==
    IF ~(OccursAt(<<"ping", "fen">>, s, i) /\ i + 2 <= Len(s) /\ IsColon(s[i + 2]))
    THEN [ok |-> FALSE]
    ELSE LET j == SkipSpaces(s, i + 3)
             negative == j <= Len(s) /\ s[j] = "dash"
             d == IF negative THEN j + 1 ELSE j
             e == DigitsEnd(s, d)
         IN  IF e = d THEN [ok |-> FALSE]
             ELSE [ok |-> TRUE, negative |-> negative, digits |-> SubSeq(s, d, e - 1)]

\* the score the claim states for a response text
ClaimedScore(s) ==
    LET hits == {i \in 1..Len(s) : DeclaredAt(s, i).ok}
    IN  IF hits = {} THEN 5
        ELSE LET first == DeclaredAt(s, MinOf(hits))
                 v == DecimalValue(first.digits, 0)
             IN  IF first.negative \/ v < 1 THEN 1
                 ELSE IF v > 10 THEN 10 ELSE v

\* C13: the parser's overall score is the first integer following a score
\* label, clamped into 1..10 (15 gives 10; 0 or a negative score gives 1), and
\* 5 when no score label is present.
C13_FirstDeclaredScore ==
    (pc = "done" /\ IsSome(result)) =>
        result.val.score = ClaimedScore(backend.text)

\* number of characters before position i of a text
CharsBefore(s, i) == TextLen(SubSeq(s, 1, i - 1))

\* the marker occurs in s, wholly within the first n characters
OccursWithin(marker, s, n) ==
    \E i \in 1..Len(s) :
        OccursAt(marker, s, i) /\ CharsBefore(s, i) + Len(marker) <= n

\* C14: the parser sets isPositive exactly when the positive marker occurs
\* somewhere in the response and the negative marker does not occur within
\* its first 100 characters; a negative marker only after the first 100
\* characters leaves the result positive.
C14_PolarityWindow ==
    (pc = "done" /\ IsSome(result)) =>
        result.val.is_positive =
            (/\ \E i \in 1..Len(backend.text) : OccursAt(lihao, backend.text, i)
             /\ ~OccursWithin(likong, backend.text, 100))

\* a positive marker, a negative marker only beyond the first 100
\* characters, and a positive result
C14_Witness ==
    /\ pc = "done"
    /\ IsSome(result)
    /\ Contains(backend.text, lihao)
    /\ Contains(backend.text, likong)
    /\ ~OccursWithin(likong, backend.text, 100)
    /\ result.val.is_positive

\* text.split("\n")
RECURSIVE SplitLines(_, _)
SplitLines(s, cur) ==
    IF s = <<>> THEN <<cur>>
    ELSE IF Head(s) = "nl" THEN <<cur>> \o SplitLines(Tail(s), <<>>)
    ELSE SplitLines(Tail(s), Append(cur, Head(s)))

\* the rating of one response line taken by itself: the line has the form
\* "- name: polarity score/10 | reason" from its first character on and its
\* score converts; otherwise no rating
LineRating(line) ==
    LET m == StockMatchAt(line, 1)
    IN  IF m.ok /\ IsSome(ToInt(m.score_str))
        THEN <<[stock_name |-> Strip(m.stock_name),
                is_positive |-> (m.sentiment = lihao),
                score |-> Clamp(ToInt(m.score_str).val),
                reason |-> TakeChars(Strip(m.reason), ReasonLimit)]>>
        ELSE <<>>

\* C15: the parser's stock ratings are, in order, one rating for each response
\* line of the form "- name: polarity score/10 | reason", with the name,
\* polarity, clamped score and reason (first 100 characters) of that line, and
\* none for any other line; a malformed line changes nothing about the
\* ratings of the lines around it.
C15_OneRatingPerWellFormedLine ==
    (pc = "done" /\ IsSome(result)) =>
        LET lines == SplitLines(backend.text, <<>>)
        IN  result.val.stock_ratings =
                Flatten([i \in DOMAIN lines |-> LineRating(lines[i])])

industry_rating_marker == <<"hang", "ye", "ping", "ji2">>
industry_name_marker == <<"hang", "ye", "ming", "cheng">>

\* positions of s where the industry-name label and a colon stand
NameLabels(s) ==
    {i \in 1..Len(s) :
        /\ OccursAt(industry_name_marker, s, i)
        /\ i + 4 <= Len(s)
        /\ IsColon(s[i + 4])}

\* C16: the parser gives no industry rating when the response holds neither
\* the industry-rating nor the industry-name marker; it gives at most one
\* industry rating however many industry blocks the response holds; and it
\* gives none when no industry name is labelled in the response or the name
\* is the placeholder, even with direction, score and leaders present.
C16_AtMostOneNamedIndustry ==
    (pc = "done" /\ IsSome(result)) =>
        LET s == backend.text
            ir == result.val.industry_ratings
        IN  /\ (~Contains(s, industry_rating_marker)
                   /\ ~Contains(s, industry_name_marker)) => ir = <<>>
            /\ Len(ir) <= 1
            /\ NameLabels(s) = {} => ir = <<>>
            /\ \A i \in DOMAIN ir : ir[i].industry_name /= unknown_industry

\* a response with two industry blocks parsed into exactly one rating
C16_Witness ==
    /\ pc = "done"
    /\ IsSome(result)
    /\ Cardinality(NameLabels(backend.text)) = 2
    /\ Contains(backend.text, <<"yin", "hang">>)
    /\ Contains(backend.text, <<"bai", "jiu">>)
    /\ Len(result.val.industry_ratings) = 1

(***************************************************************************)
(* The prompt builder applied to every item of a set, one after another.   *)
(***************************************************************************)
MaxStocks == 1

StockNames == << <<"GongShangYinHang">>, <<"JianSheYinHang">>, <<"ZhaoShangYinHang">> >>

\* subjects of the items: none, one subject, and one subject spelt like the
\* "none" marker of the prompt
PromptSubjects == { <<>>, << <<"yin", "hang">> >>, <<wu>> }

\* items with 0..MaxStocks stocks and each kind of subjects, and one item
\* whose timestamp cannot be formatted
PromptItems ==
    {NewsItem("101", <<"tian", "qi2">>, RawRecord("101").ctime, subj,
              Take(StockNames, k)) :
        subj \in PromptSubjects, k \in 0..Min(MaxStocks, Len(StockNames))}
      \cup {NewsItem("101", <<"tian", "qi2">>,
                     <<"1", "0", "0", "0", "0", "0", "0", "0", "0", "0", "0", "0", "0">>,
                     <<>>, <<>>)}

\* items already handed to the prompt builder
Prompted == {e.item : e \in promptLog}

InitPrompt ==
    /\ lastSeenId = ""
    /\ pollLog = <<>>
    /\ available = TRUE
    /\ news = None
    /\ backend = [kind |-> "none"]
    /\ result = None
    /\ trace = [prompts |-> 0, calls |-> 0, path |-> "none"]
    /\ builtPrompt = None
    /\ promptLog = {}
    /\ rawRecord = None
    /\ urlLog = <<>>
    /\ monitor = None
    /\ provider = None
    /\ providerLog = <<>>
    /\ cycleLog = <<>>
    /\ pc = "prompt"

\* one call of _build_analysis_prompt(item) on an item not yet handled
BuildPrompt ==
    /\ pc = "prompt"
    /\ \E item \in PromptItems \ Prompted :
         LET p == BuildAnalysisPrompt(item)
         IN  /\ news' = Some(item)
             /\ builtPrompt' = p
             /\ promptLog' = promptLog \cup {[item |-> item, prompt |-> p]}
             /\ trace' = [trace EXCEPT !.prompts = IF IsSome(p) THEN @ + 1 ELSE @,
                                       !.path = "prompt"]
             /\ pc' = IF Prompted \cup {item} = PromptItems THEN "done" ELSE "prompt"
    /\ UNCHANGED <<lastSeenId, pollLog, available, backend, result, rawRecord, urlLog, monitor, cycleLog,
                   provider, providerLog>>

NextPrompt == BuildPrompt

SpecPrompt == InitPrompt /\ [][NextPrompt]_vars

(***************************************************************************)
(* Prompt builder claims (checked under SpecPrompt).                       *)
(***************************************************************************)
\* C17: a prompt carries the stock-rating request section exactly when the
\* item has at least one stock, and the industry-rating request section
\* exactly when the item has no stocks or at least one subject; the overall
\* assessment request and the scoring rubric are in every prompt.
C17_SectionsFollowItem ==
    \A e \in promptLog :
        IsSome(e.prompt) =>
            /\ e.prompt.val.stock_analysis_section = (e.item.stocks /= <<>>)
            /\ e.prompt.val.industry_analysis_section =
                  (e.item.stocks = <<>> \/ e.item.subjects /= <<>>)
            /\ e.prompt.val.overall_section
            /\ e.prompt.val.rubric

\* prompts built for an item with a stock and no subject (the stock section
\* alone) and for an item with a stock and a subject spelt like the "none"
\* marker (the industry section as well)
C17_Witness ==
    /\ pc = "done"
    /\ \E e \in promptLog :
          /\ IsSome(e.prompt)
          /\ e.item.stocks /= <<>>
          /\ e.item.subjects = <<>>
          /\ e.prompt.val.stock_analysis_section
          /\ ~e.prompt.val.industry_analysis_section
    /\ \E e \in promptLog :
          /\ IsSome(e.prompt)
          /\ e.item.stocks /= <<>>
          /\ e.item.subjects = <<wu>>
          /\ e.prompt.val.industry_analysis_section

\* (stock section present, industry section present) of the prompts built
CombinationsBuilt ==
    {<<e.prompt.val.stock_analysis_section, e.prompt.val.industry_analysis_section>> :
        e \in {x \in promptLog : IsSome(x.prompt)}}

\* C18 (as claimed): over all items, each of the four combinations of the two
\* conditional sections occurs: both, the stock section only, the industry
\* section only, neither.
C18_AllFourCombinations ==
    pc = "done" => CombinationsBuilt = BOOLEAN \X BOOLEAN

\* C18 (amended): over all items, exactly three combinations occur: both
\* sections, the stock section only, the industry section only; no prompt
\* lacks both sections, since an item without stocks is an industry event.
C18_ThreeCombinations ==
    /\ <<FALSE, FALSE>> \notin CombinationsBuilt
    /\ pc = "done" =>
          CombinationsBuilt = (BOOLEAN \X BOOLEAN) \ {<<FALSE, FALSE>>}

\* every item has been handed to the prompt builder; the prompts show three
\* combinations, among them the one of an item without stocks and subjects
C18_Witness ==
    /\ pc = "done"
    /\ Cardinality(CombinationsBuilt) = 3
    /\ \E e \in promptLog :
          /\ IsSome(e.prompt)
          /\ e.item.stocks = <<>>
          /\ e.item.subjects = <<>>
          /\ e.prompt.val.industry_analysis_section
          /\ ~e.prompt.val.stock_analysis_section

(***************************************************************************)
(* NewsItem.from_api_response applied to raw records.                      *)
(***************************************************************************)
MaxEntries == 2

\* entries of a "stocks" / "subjects" list: an object with a name, an object
\* without one, a bare string, and a value that is neither
ListEntries ==
    { [kind |-> "dict", hasName |-> TRUE, name |-> <<"GongShangYinHang">>],
      [kind |-> "dict", hasName |-> FALSE],
      [kind |-> "str", name |-> <<"JianSheYinHang">>],
      [kind |-> "int"] }

\* an optional field: absent, or present with one of the values
Optional(values) == {None} \cup {Some(v) : v \in values}

\* the dict with "id" and the optional fields that are present
RawDict(title, content, digest, ctime, stocks, subjects) ==
    LET fields == [title |-> title, content |-> content, digest |-> digest,
                   ctime |-> ctime, stocks |-> stocks, subjects |-> subjects]
        present == {k \in DOMAIN fields : IsSome(fields[k])}
    IN  [k \in present \cup {"id"} |-> IF k = "id" THEN "101" ELSE fields[k].val]

\* raw records: an id and any subset of the optional fields
RawRecords ==
    {RawDict(title, content, digest, ctime, stocks, subjects) :
        title \in Optional({"t"}),
        content \in Optional({ <<"tian", "qi2">> }),
        digest \in Optional({ <<"li", "hao">> }),
        ctime \in Optional({RawRecord("101").ctime}),
        stocks \in Optional(SeqsUpTo(ListEntries, MaxEntries)),
        subjects \in Optional(
            { <<>>,
              << [kind |-> "str", name |-> <<"yin", "hang">>],
                 [kind |-> "int"],
                 [kind |-> "dict", hasName |-> TRUE, name |-> <<"bai", "jiu">>] >> })}

InitRecord ==
    /\ lastSeenId = ""
    /\ pollLog = <<>>
    /\ available = FALSE
    /\ news = None
    /\ backend = [kind |-> "none"]
    /\ result = None
    /\ trace = [prompts |-> 0, calls |-> 0, path |-> "none"]
    /\ builtPrompt = None
    /\ promptLog = {}
    /\ rawRecord \in {Some(d) : d \in RawRecords}
    /\ urlLog = <<>>
    /\ monitor = None
    /\ provider = None
    /\ providerLog = <<>>
    /\ cycleLog = <<>>
    /\ pc = "ready"

\* one call of NewsItem.from_api_response(data)
Construct ==
    /\ pc = "ready"
    /\ news' = Some(FromApiResponse(rawRecord.val))
    /\ pc' = "done"
    /\ UNCHANGED <<lastSeenId, pollLog, available, backend, result, trace,
                   builtPrompt, promptLog, rawRecord, urlLog, monitor, cycleLog,
                   provider, providerLog>>

NextRecord == Construct

SpecRecord == InitRecord /\ [][NextRecord]_vars

(***************************************************************************)
(* NewsItem construction claims (checked under SpecRecord).                *)
(***************************************************************************)
\* the names a list of entries contributes: those of the objects with a name
\* and of the bare strings, in order
NamedEntries(entries) ==
    LET Named(e) == (e.kind = "dict" /\ e.hasName) \/ e.kind = "str"
        kept == SelectSeq(entries, Named)
    IN  [i \in DOMAIN kept |-> kept[i].name]

\* C19: from_api_response builds an item from any record with missing
\* optional fields: absent title gives "", absent content gives the digest if
\* present and "" otherwise, absent timestamp gives 0, absent or empty
\* stocks / subjects give empty lists; a list entry contributes its name when
\* it is an object with a name or a bare string and is skipped otherwise,
\* order kept.
C19_MissingFieldsDefaults ==
    pc = "done" =>
        LET d == rawRecord.val
            has(k) == k \in DOMAIN d
        IN  /\ IsSome(news)
            /\ news.val.id = d.id
            /\ news.val.title = IF has("title") THEN d.title ELSE ""
            /\ news.val.content = IF has("content") THEN d.content
                                  ELSE IF has("digest") THEN d.digest
                                  ELSE <<>>
            /\ news.val.ctime = IF has("ctime") THEN d.ctime ELSE <<"0">>
            /\ news.val.stocks = IF has("stocks") THEN NamedEntries(d.stocks)
                                 ELSE <<>>
            /\ news.val.subjects = IF has("subjects") THEN NamedEntries(d.subjects)
                                   ELSE <<>>

\* an item built from a record with only an id, a digest and lists holding a
\* nameless object and a non-string between named entries
C19_Witness ==
    /\ pc = "done"
    /\ DOMAIN rawRecord.val = {"id", "digest", "stocks", "subjects"}
    /\ Len(rawRecord.val.stocks) = 2
    /\ rawRecord.val.stocks[1].kind = "int"
    /\ rawRecord.val.stocks[2].kind = "str"
    /\ Len(rawRecord.val.subjects) = 3
    /\ news.val.title = ""
    /\ news.val.content = <<"li", "hao">>
    /\ news.val.ctime = <<"0">>
    /\ news.val.stocks = << <<"JianSheYinHang">> >>
    /\ news.val.subjects = << <<"yin", "hang">>, <<"bai", "jiu">> >>

\* ---------------------------------------------------------------------------
\* Request signing: CLSScraper._generate_sign and CLSScraper._build_api_url.
\* scraper.py is not in the source tree: the two operations are modelled from
\* spec sections 4.1 and 6 and from what tests/test_scraper.py expects of them.
\* A URL is a sequence of string tokens (keys, values and the separators
\* "?", "=", "&"); the text that is hashed is the concatenation of its tokens.

\* how many _build_api_url calls one behaviour records
MaxBuilds == 3

DecimalDigits == <<"0", "1", "2", "3", "4", "5", "6", "7", "8", "9">>

\* str(n) of a non-negative integer
RECURSIVE IntToStr(_)
IntToStr(n) ==
    IF n < 10 THEN DecimalDigits[n + 1]
    ELSE IntToStr(n \div 10) \o DecimalDigits[(n % 10) + 1]

\* hashlib.sha1(b).hexdigest() and hashlib.md5(b).hexdigest(): the digest of
\* a string is the string wrapped in the name of the hash, so that different
\* inputs have different digests
Sha1Hex(b) == "sha1hex(" \o b \o ")"

Md5Hex(b) == "md5hex(" \o b \o ")"

\* mutant of GenerateSign: the md5 of the string itself, no sha1 step
GenerateSign_Md5Only(params_str) == Md5Hex(params_str)

\* CLSScraper._generate_sign(params_str)
GenerateSign(params_str) == Md5Hex(Sha1Hex(params_str))

\* the endpoint the query string is appended to
API_URL == "API_URL"

\* the query parameters of one request, in the order they are sent
RequestParams(last_time, count) ==
    << <<"app", "CailianpressWeb">>,
       <<"os", "web">>,
       <<"sv", "7.2.2">>,
       <<"rn", IntToStr(count)>>,
       <<"last_time", IntToStr(last_time)>> >>

\* the key order of the string that is signed
CanonicalOrder == <<"app", "last_time", "os", "rn", "sv">>

ValueOf(params, key) ==
    params[CHOOSE i \in 1..Len(params) : params[i][1] = key][2]

CanonicalParams(params) ==
    [i \in 1..Len(CanonicalOrder) |->
        <<CanonicalOrder[i], ValueOf(params, CanonicalOrder[i])>>]

\* "&".join(f"{k}={v}" for k, v in pairs), token by token
RECURSIVE QueryTokens(_)
QueryTokens(pairs) ==
    IF pairs = <<>> THEN <<>>
    ELSE <<pairs[1][1], "=", pairs[1][2]>>
         \o (IF Len(pairs) = 1 THEN <<>> ELSE <<"&">> \o QueryTokens(Tail(pairs)))

\* the string a token sequence spells
RECURSIVE Spell(_)
Spell(tokens) ==
    IF tokens = <<>> THEN "" ELSE tokens[1] \o Spell(Tail(tokens))

\* CLSScraper._build_api_url(last_time, count)
BuildApiUrl(last_time, count) ==
    LET params == RequestParams(last_time, count)
        params_str == Spell(QueryTokens(CanonicalParams(params)))
        sign == GenerateSign(params_str)
    IN  <<API_URL, "?">> \o QueryTokens(Append(params, <<"sign", sign>>))

\* the cursors and counts the calls are made with
LastTimes == {0, 1234567890, 1704067200}

Counts == {1, 20, 105}

InitSign ==
    /\ lastSeenId = ""
    /\ pollLog = <<>>
    /\ AnalyzerIdle
    /\ pc = "ready"

\* one call of _build_api_url, recorded with its arguments
BuildUrl ==
    /\ pc = "ready"
    /\ Len(urlLog) < MaxBuilds
    /\ \E last_time \in LastTimes, count \in Counts :
         urlLog' = Append(urlLog, [last_time |-> last_time, count |-> count,
                                   url |-> BuildApiUrl(last_time, count)])
    /\ UNCHANGED <<lastSeenId, pollLog, available, news, backend, result, trace,
                   builtPrompt, promptLog, rawRecord, pc, monitor, cycleLog,
                   provider, providerLog>>

NextSign == BuildUrl

SpecSign == InitSign /\ [][NextSign]_vars

\* the positions of the separator sep in a token sequence
SeparatorsOf(tokens, sep) == {i \in 1..Len(tokens) : tokens[i] = sep}

\* the key=value pairs a URL carries after its "?", in order; a pair is the
\* tokens between two "&" and must read key, "=", value
UrlPairs(url) ==
    LET q == CHOOSE i \in 1..Len(url) : url[i] = "?"
        query == SubSeq(url, q + 1, Len(url))
        cuts == SeparatorsOf(query, "&")
        start(k) == IF k = 1 THEN 1
                    ELSE 1 + CHOOSE c \in cuts :
                               Cardinality({d \in cuts : d < c}) = k - 2
        stop(k) == IF k = Cardinality(cuts) + 1 THEN Len(query)
                   ELSE (CHOOSE c \in cuts :
                             Cardinality({d \in cuts : d < c}) = k - 1) - 1
    IN  [k \in 1..(Cardinality(cuts) + 1) |-> SubSeq(query, start(k), stop(k))]

\* C20: every URL _build_api_url returns carries app, last_time, os, rn and sv
\* with the values of the call (rn the requested count), each once, and ends
\* with sign=<signature>, where the signature is md5hex(sha1hex(canonical)) and
\* canonical is "app=..&last_time=..&os=..&rn=..&sv=.." in that key order; two
\* calls with equal arguments return the same URL with the same signature.
C20_SignedUrl ==
    \A i \in 1..Len(urlLog) :
        LET call == urlLog[i]
            pairs == UrlPairs(call.url)
            canonical == "app=CailianpressWeb"
                         \o "&last_time=" \o IntToStr(call.last_time)
                         \o "&os=web"
                         \o "&rn=" \o IntToStr(call.count)
                         \o "&sv=7.2.2"
            carries(key, value) ==
                Cardinality({k \in 1..Len(pairs) : pairs[k][1] = key}) = 1
                /\ \E k \in 1..(Len(pairs) - 1) : pairs[k] = <<key, "=", value>>
        IN  /\ \A k \in 1..Len(pairs) : Len(pairs[k]) = 3 /\ pairs[k][2] = "="
            /\ carries("app", "CailianpressWeb")
            /\ carries("last_time", IntToStr(call.last_time))
            /\ carries("os", "web")
            /\ carries("rn", IntToStr(call.count))
            /\ carries("sv", "7.2.2")
            /\ pairs[Len(pairs)] = <<"sign", "=", Md5Hex(Sha1Hex(canonical))>>
            /\ \A j \in 1..Len(urlLog) :
                   (urlLog[j].last_time = call.last_time
                    /\ urlLog[j].count = call.count)
                   => urlLog[j].url = call.url

\* the URL of the call the test makes (cursor 1234567890, count 20), built
\* twice in one behaviour, next to a call with another count
C20_Witness ==
    /\ Len(urlLog) = MaxBuilds
    /\ \E i, j \in 1..Len(urlLog) :
         /\ i < j
         /\ urlLog[i].last_time = 1234567890 /\ urlLog[i].count = 20
         /\ urlLog[j].last_time = 1234567890 /\ urlLog[j].count = 20
         /\ urlLog[j].url[Len(urlLog[j].url)] =
              "md5hex(sha1hex(app=CailianpressWeb&last_time=1234567890&os=web&rn=20&sv=7.2.2))"
    /\ \E i \in 1..Len(urlLog) : urlLog[i].count = 1

(***************************************************************************)
(* main.py: CLSNewsMonitor (the monitoring loop, its counters and its      *)
(* shutdown handler). The scraper is the poller modelled above; the        *)
(* analyzer is the analysis engine modelled above.                         *)
(***************************************************************************)
\* how many processing cycles one behaviour runs
MaxCycles == 3

\* the text that stands for a JSON null content (Python None)
Null == <<"None">>

\* the raw records the monitored feed carries: a plain record, a record with
\* a null content, and a record whose ctime is in milliseconds
MonitorRecords ==
    UNION {{ RawRecord(i),
             [id |-> i, title |-> "t", content |-> Null, ctime |-> RawRecord(i).ctime],
             [id |-> i, title |-> "t",
              ctime |-> <<"1", "0", "0", "0", "0", "0", "0", "0", "0", "0", "0", "0", "0">>] } :
           i \in FeedIds}

\* what one fetch of the monitored feed can give; "crash" is an exception
\* that escapes fetch_latest_news
MonitorFeeds ==
    {[kind |-> k, records |-> <<>>] : k \in FailureKinds \cup {"crash"}}
        \cup {[kind |-> "ok", records |-> rs] : rs \in SeqsUpTo(MonitorRecords, MaxFeedLen)}

\* the identifier of the feed's first record, if the fetch gave one
FirstOf(resp) ==
    IF resp.kind = "ok" /\ resp.records /= <<>> THEN Some(resp.records[1].id) ELSE None

\* what the backend does in one cycle: raises, answers with a score, or
\* answers with a score of 4301 digits
MonitorBackends ==
    { [kind |-> "raise"],
      [kind |-> "text", text |-> <<"ping", "fen", "fcolon", "8">>],
      [kind |-> "text", text |-> <<"ping", "fen", "fcolon", "digits4301">>] }

\* NewsAnalyzer.analyze(news) as the cycle sees it: the value returned, or an
\* exception (news.content.lower() in the fallback scorer on a null content)
MonitorAnalyze(is_available, item, b) ==
    LET r == AnalyzeNews(is_available, item, b)
    IN  IF item.content = Null /\ r.path = "fallback"
        THEN [raised |-> TRUE, result |-> None]
        ELSE [raised |-> FALSE, result |-> r.result]

NoStats == [total_fetches |-> 0, new_items |-> 0, duplicates |-> 0, errors |-> 0]

\* stats[key] += 2
Incremented_Twice(stats, key) == [stats EXCEPT ![key] = @ + 2]

\* stats[key] += 1 forgotten
Incremented_Stuck(stats, key) == stats

\* stats[key] += 1
Incremented(stats, key) == [stats EXCEPT ![key] = @ + 1]

\* CLSNewsMonitor.__init__: the state after construction, handlers installed
InitMonitor ==
    /\ lastSeenId = ""
    /\ pollLog = <<>>
    /\ available \in BOOLEAN
    /\ news = None
    /\ backend = [kind |-> "none"]
    /\ result = None
    /\ trace = [prompts |-> 0, calls |-> 0, path |-> "none"]
    /\ builtPrompt = None
    /\ promptLog = {}
    /\ rawRecord = None
    /\ urlLog = <<>>
    /\ monitor = Some([running |-> FALSE, stats |-> NoStats, closed |-> 0,
                       signalled |-> "no"])
    /\ cycleLog = <<>>
    /\ provider = None
    /\ providerLog = <<>>
    /\ pc = "constructed"

\* run(), up to the loop
Run ==
    /\ pc = "constructed"
    /\ monitor' = Some([monitor.val EXCEPT !.running = TRUE])
    /\ pc' = "loop"
    /\ UNCHANGED <<lastSeenId, pollLog, available, news, backend, result, trace,
                   builtPrompt, promptLog, rawRecord, urlLog, cycleLog,
                   provider, providerLog>>

\* _handle_shutdown, run by SIGINT or SIGTERM between any two steps
HandleShutdown ==
    /\ IsSome(monitor)
    /\ pc /= "returned"
    /\ monitor' = Some([monitor.val EXCEPT
                           !.running = FALSE,
                           !.signalled = IF pc = "constructed" /\ @ = "no"
                                         THEN "before_run"
                                         ELSE IF pc = "constructed" THEN @
                                         ELSE "during_run"])
    /\ UNCHANGED <<lastSeenId, pollLog, available, news, backend, result, trace,
                   builtPrompt, promptLog, rawRecord, urlLog, cycleLog, pc,
                   provider, providerLog>>

\* mutant of AfterPoll: the cycle returns after the poll whatever it gave
AfterPoll_AlwaysReturns(item) == "wait"

\* `if news is None: return`, otherwise go on to the analysis
AfterPoll(item) == IF IsSome(item) THEN "analyze" ELSE "wait"

\* the loop test passed: _process_cycle up to the poll's outcome
StartCycle ==
    /\ pc = "loop"
    /\ monitor.val.running
    /\ Len(cycleLog) < MaxCycles
    /\ \E resp \in MonitorFeeds :
         LET counted == Incremented(monitor.val.stats, "total_fetches")
             entry == [feed |-> FirstOf(resp), polled |-> None, analyzed |-> None,
                       outcome |-> "none", signalled |-> monitor.val.signalled,
                       slept |-> FALSE]
         IN  IF resp.kind = "crash"
             THEN /\ monitor' = Some([monitor.val EXCEPT
                                         !.stats = Incremented(counted, "errors")])
                  /\ cycleLog' = Append(cycleLog, [entry EXCEPT !.outcome = "poll_raised"])
                  /\ pc' = "wait"
                  /\ UNCHANGED <<lastSeenId, news,
                   provider, providerLog>>
             ELSE LET r == PollResult(lastSeenId, resp)
                  IN  /\ lastSeenId' = r.last
                      /\ IF IsSome(r.item)
                         THEN /\ monitor' = Some([monitor.val EXCEPT
                                        !.stats = Incremented(counted, "new_items")])
                              /\ cycleLog' = Append(cycleLog,
                                        [entry EXCEPT !.polled = r.item,
                                                      !.outcome = "pending"])
                              /\ news' = r.item
                              /\ pc' = AfterPoll(r.item)
                         ELSE /\ monitor' = Some([monitor.val EXCEPT
                                        !.stats = Incremented(counted, "duplicates")])
                              /\ cycleLog' = Append(cycleLog, entry)
                              /\ news' = None
                              /\ pc' = AfterPoll(r.item)
    /\ UNCHANGED <<pollLog, available, backend, result, trace,
                   builtPrompt, promptLog, rawRecord, urlLog,
                   provider, providerLog>>

\* how a cycle that polled an item ends: analyze raised, analyze returned
\* None (warning), _display_result raised on news.display_time, or displayed
CycleOutcome(item, a) ==
    IF a.raised THEN "analysis_raised"
    ELSE IF ~IsSome(a.result) THEN "analysis_none"
    ELSE IF ~IsSome(DisplayTime(item.ctime)) THEN "display_raised"
    ELSE "displayed"

\* the rest of _process_cycle: analyze(news), then display or warn
AnalyzeStep ==
    /\ pc = "analyze"
    /\ \E b \in MonitorBackends :
         \E a \in {MonitorAnalyze(available, news.val, b)} :
           \E outcome \in {CycleOutcome(news.val, a)} :
             /\ backend' = b
             /\ result' = a.result
             /\ cycleLog' = [cycleLog EXCEPT ![Len(cycleLog)] =
                               [@ EXCEPT !.analyzed = news, !.outcome = outcome]]
             /\ monitor' = IF outcome \in {"analysis_raised", "display_raised"}
                           THEN Some([monitor.val EXCEPT
                                        !.stats = Incremented(@, "errors")])
                           ELSE monitor
    /\ news' = None
    /\ pc' = "wait"
    /\ UNCHANGED <<lastSeenId, pollLog, available, trace,
                   builtPrompt, promptLog, rawRecord, urlLog,
                   provider, providerLog>>

\* `if self._running: time.sleep(...)`, then back to the loop test
Wait ==
    /\ pc = "wait"
    /\ cycleLog' = [cycleLog EXCEPT ![Len(cycleLog)] =
                      [@ EXCEPT !.slept = monitor.val.running]]
    /\ pc' = "loop"
    /\ UNCHANGED <<lastSeenId, pollLog, available, news, backend, result, trace,
                   builtPrompt, promptLog, rawRecord, urlLog, monitor,
                   provider, providerLog>>

\* the loop test failed: _shutdown() closes the scraper and run() returns
Shutdown ==
    /\ pc = "loop"
    /\ ~monitor.val.running
    /\ monitor' = Some([monitor.val EXCEPT !.closed = @ + 1])
    /\ pc' = "returned"
    /\ UNCHANGED <<lastSeenId, pollLog, available, news, backend, result, trace,
                   builtPrompt, promptLog, rawRecord, urlLog, cycleLog,
                   provider, providerLog>>

NextMonitor ==
    \/ Run
    \/ HandleShutdown
    \/ StartCycle
    \/ AnalyzeStep
    \/ Wait
    \/ Shutdown

SpecMonitor == InitMonitor /\ [][NextMonitor]_vars

(***************************************************************************)
(* Monitor claims (checked under SpecMonitor).                             *)
(***************************************************************************)
\* the cycles that have run to their end: all but one still at its analysis
Completed ==
    {k \in 1..Len(cycleLog) : ~(k = Len(cycleLog) /\ pc = "analyze")}

\* C21: a cycle polls once, then calls analyze if and only if the poll
\* returned an item, with that same item; a cycle whose poll returned none or
\* raised calls no analyze; and a poll happens only when the analysis of every
\* earlier cycle is over (only the last cycle can be waiting for its analysis,
\* and then the item in hand is the one it polled).
C21_PollThenAnalyze ==
    /\ \A k \in Completed :
         /\ cycleLog[k].analyzed = cycleLog[k].polled
         /\ cycleLog[k].outcome /= "pending"
         /\ IsSome(cycleLog[k].polled)
              <=> cycleLog[k].outcome \in {"displayed", "analysis_none",
                                           "analysis_raised", "display_raised"}
    /\ pc = "analyze" =>
         /\ cycleLog /= <<>>
         /\ cycleLog[Len(cycleLog)].outcome = "pending"
         /\ cycleLog[Len(cycleLog)].analyzed = None
         /\ IsSome(news)
         /\ cycleLog[Len(cycleLog)].polled = news

\* three cycles run to their end: one whose poll returned none, and two whose
\* polls returned different items, each analyzed
C21_Witness ==
    /\ Len(cycleLog) = MaxCycles
    /\ pc = "wait"
    /\ \E k \in 1..Len(cycleLog) :
         cycleLog[k].polled = None /\ cycleLog[k].outcome = "none"
    /\ \E j, k \in 1..Len(cycleLog) :
         /\ j < k
         /\ IsSome(cycleLog[j].polled) /\ IsSome(cycleLog[k].polled)
         /\ cycleLog[j].analyzed.val.id = "101"
         /\ cycleLog[k].analyzed.val.id = "102"

\* the cycles whose analysis failed: analyze returned None (a warning is
\* logged) or raised (the error is logged and counted by run())
FailedAnalyses ==
    {k \in Completed : cycleLog[k].outcome \in {"analysis_none", "analysis_raised"}}

\* C22: when analyze is called the item's id is already lastSeenId; and after
\* a cycle whose analysis failed, every later cycle up to which the feed's
\* first record kept that item's id polls none and analyzes nothing: the item
\* is not analyzed again.
C22_FailedItemNotRetried ==
    /\ pc = "analyze" => lastSeenId = news.val.id
    /\ \A k \in FailedAnalyses :
         \A j \in (k + 1)..Len(cycleLog) :
             (\A m \in (k + 1)..j : cycleLog[m].feed = Some(cycleLog[k].polled.val.id))
             => /\ cycleLog[j].polled = None
                /\ cycleLog[j].analyzed = None
                /\ cycleLog[j].outcome = "none"

\* analyze returned None for item 101, then raised for item 102, and the next
\* poll found 102 still first in the feed
C22_Witness ==
    /\ Len(cycleLog) = MaxCycles
    /\ pc = "wait"
    /\ cycleLog[1].outcome = "analysis_none" /\ cycleLog[1].polled.val.id = "101"
    /\ cycleLog[2].outcome = "analysis_raised" /\ cycleLog[2].polled.val.id = "102"
    /\ cycleLog[MaxCycles].feed = Some("102")
    /\ cycleLog[MaxCycles].polled = None

\* C23: once _handle_shutdown has run, at any time after construction, no new
\* cycle is started (every cycle was started with no shutdown signal handled
\* before it); the cycle in progress is completed; and when run() has returned
\* the scraper has been closed exactly once.
C23_NoCycleAfterSignal ==
    /\ \A k \in 1..Len(cycleLog) : cycleLog[k].signalled = "no"
    /\ \A k \in 1..Len(cycleLog) : pc = "returned" => cycleLog[k].outcome /= "pending"
    /\ pc = "returned" => monitor.val.closed = 1

(***************************************************************************)
(* ai_providers: create_ai_provider, GitHubCopilotProvider and             *)
(* QiniuCloudProvider. A provider name is a sequence of characters, with   *)
(* "sp" and "nl" for a space and a newline.                                *)
(***************************************************************************)
\* how many provider.analyze calls one behaviour makes
MaxCalls == 2

LowerLetters ==
    <<"a", "b", "c", "d", "e", "f", "g", "h", "i", "j", "k", "l", "m",
      "n", "o", "p", "q", "r", "s", "t", "u", "v", "w", "x", "y", "z">>

UpperLetters ==
    <<"A", "B", "C", "D", "E", "F", "G", "H", "I", "J", "K", "L", "M",
      "N", "O", "P", "Q", "R", "S", "T", "U", "V", "W", "X", "Y", "Z">>

\* str.lower() and str.upper() on the characters of a provider name
NameLowerChar(c) ==
    IF \E i \in DOMAIN UpperLetters : UpperLetters[i] = c
    THEN LowerLetters[CHOOSE i \in DOMAIN UpperLetters : UpperLetters[i] = c]
    ELSE c

NameUpperChar(c) ==
    IF \E i \in DOMAIN LowerLetters : LowerLetters[i] = c
    THEN UpperLetters[CHOOSE i \in DOMAIN LowerLetters : LowerLetters[i] = c]
    ELSE c

NameLower(name) == [i \in DOMAIN name |-> NameLowerChar(name[i])]

AI_PROVIDER_COPILOT == <<"c", "o", "p", "i", "l", "o", "t">>
AI_PROVIDER_QINIU == <<"q", "i", "n", "i", "u">>

\* a str argument that may be None: None, Some("") or Some("...")
NonEmpty(v) == IsSome(v) /\ v.val /= ""

\* GitHubCopilotProvider(github_token); sdk is what importing and starting
\* the Copilot SDK does: "ok", "ImportError" or "Exception"
GitHubCopilotProvider(github_token, sdk) ==
    [kind |-> "copilot", token |-> github_token,
     session |-> NonEmpty(github_token) /\ sdk = "ok",
     requests |-> 0]

\* QiniuCloudProvider(access_key, secret_key)
QiniuCloudProvider(access_key, secret_key) ==
    [kind |-> "qiniu", access_key |-> access_key, secret_key |-> secret_key,
     initialized |-> NonEmpty(access_key) /\ NonEmpty(secret_key),
     requests |-> 0]

\* mutant of create_ai_provider: the name is compared as given, trimmed only
CreateAiProvider_CaseSensitive(provider_name, github_token, qiniu_access_key, qiniu_secret_key, sdk) ==
    LET name == Strip(provider_name)
    IN  IF name = AI_PROVIDER_COPILOT
        THEN [raised |-> "", provider |-> Some(GitHubCopilotProvider(github_token, sdk))]
        ELSE IF name = AI_PROVIDER_QINIU
        THEN [raised |-> "",
              provider |-> Some(QiniuCloudProvider(qiniu_access_key, qiniu_secret_key))]
        ELSE [raised |-> "ValueError", provider |-> None]

\* create_ai_provider: the provider returned, or the exception raised
CreateAiProvider(provider_name, github_token, qiniu_access_key, qiniu_secret_key, sdk) ==
    LET name == Strip(NameLower(provider_name))
    IN  IF name = AI_PROVIDER_COPILOT
        THEN [raised |-> "", provider |-> Some(GitHubCopilotProvider(github_token, sdk))]
        ELSE IF name = AI_PROVIDER_QINIU
        THEN [raised |-> "",
              provider |-> Some(QiniuCloudProvider(qiniu_access_key, qiniu_secret_key))]
        ELSE [raised |-> "ValueError", provider |-> None]

\* is_available()
is_available(p) == IF p.kind = "copilot" THEN p.session ELSE p.initialized

\* every way of writing a word in upper and lower case
Casings(word) ==
    {[i \in DOMAIN word |-> IF up[i] THEN NameUpperChar(word[i]) ELSE word[i]] :
        up \in [DOMAIN word -> BOOLEAN]}

\* the names create_ai_provider is called with: every casing of the two
\* supported names, some of them with blanks around, and other names
ProviderNames ==
    Casings(AI_PROVIDER_COPILOT) \cup Casings(AI_PROVIDER_QINIU)
        \cup { <<"sp">> \o AI_PROVIDER_COPILOT,
               <<"C", "O", "P", "I", "L", "O", "T", "sp", "nl">>,
               <<"sp", "Q", "i", "n", "i", "u", "sp">>,
               <<>>,
               <<"sp">>,
               <<"c", "o", "sp", "p", "i", "l", "o", "t">>,
               <<"c", "o", "p", "i", "l", "o", "t", "s">>,
               <<"q", "i", "n", "i", "u", "2">>,
               <<"u", "n", "k", "n", "o", "w", "n", "_",
                 "p", "r", "o", "v", "i", "d", "e", "r">> }

Credentials == {None, Some(""), Some("secret")}

SdkOutcomes == {"ok", "ImportError", "Exception"}

InitProvider ==
    /\ lastSeenId = ""
    /\ pollLog = <<>>
    /\ AnalyzerIdle
    /\ pc = "ready"

\* one call of create_ai_provider
Create ==
    /\ pc = "ready"
    /\ \E name \in ProviderNames, token \in Credentials,
          access_key \in Credentials, secret_key \in Credentials, sdk \in SdkOutcomes :
         \E r \in {CreateAiProvider(name, token, access_key, secret_key, sdk)} :
           /\ provider' = r.provider
           /\ providerLog' = <<[op |-> "create", name |-> name, token |-> token,
                                access_key |-> access_key, secret_key |-> secret_key,
                                raised |-> r.raised,
                                built |-> IF IsSome(r.provider) THEN 1 ELSE 0]>>
           /\ pc' = IF r.raised = "" THEN "created" ELSE "failed"
    /\ UNCHANGED <<lastSeenId, pollLog, available, news, backend, result, trace,
                   builtPrompt, promptLog, rawRecord, urlLog, monitor, cycleLog>>

\* what a request to the backend service gives: a text, an empty answer, an
\* exception the provider catches, or one it does not catch
RequestOutcomes == {"text", "nothing", "caught", "uncaught"}

\* the request itself: session.ask(prompt) for Copilot (every exception is
\* caught), session.post(...) and the reading of its JSON for Qiniu
Request(p, outcome) ==
    LET sent == [p EXCEPT !.requests = @ + 1]
    IN  IF outcome = "text"
        THEN [provider |-> sent, returned |-> Some(<<"ping", "fen", "fcolon", "8">>),
              raised |-> FALSE]
        ELSE IF outcome = "uncaught" /\ p.kind = "qiniu"
        THEN [provider |-> sent, returned |-> None, raised |-> TRUE]
        ELSE [provider |-> sent, returned |-> None, raised |-> FALSE]

\* mutant of ProviderAnalyze: the request is sent without looking at the
\* session or the credentials
ProviderAnalyze_NoGuard(p, outcome) == Request(p, outcome)

\* provider.analyze(prompt)
ProviderAnalyze(p, outcome) ==
    IF p.kind = "copilot" /\ ~p.session
    THEN [provider |-> p, returned |-> None, raised |-> FALSE]
    ELSE IF p.kind = "qiniu" /\ ~p.initialized
    THEN [provider |-> p, returned |-> None, raised |-> FALSE]
    ELSE Request(p, outcome)

\* one call of provider.analyze(prompt) on the provider that was built
Ask ==
    /\ pc = "created"
    /\ Len(providerLog) <= MaxCalls
    /\ \E outcome \in RequestOutcomes :
         \E r \in {ProviderAnalyze(provider.val, outcome)} :
           /\ provider' = Some(r.provider)
           /\ providerLog' = Append(providerLog,
                  [op |-> "analyze", available |-> is_available(provider.val),
                   returned |-> r.returned, raised |-> r.raised,
                   requests |-> r.provider.requests - provider.val.requests,
                   after |-> is_available(r.provider)])
    /\ UNCHANGED <<lastSeenId, pollLog, available, news, backend, result, trace,
                   builtPrompt, promptLog, rawRecord, urlLog, monitor, cycleLog, pc>>

NextProvider ==
    \/ Create
    \/ Ask

SpecProvider == InitProvider /\ [][NextProvider]_vars

\* the name with the blanks around it removed is a casing of the word
IsCasingOf(name, word) ==
    LET core == Strip(name)
    IN  /\ Len(core) = Len(word)
        /\ \A i \in DOMAIN word : core[i] \in {word[i], NameUpperChar(word[i])}

\* C24: create_ai_provider returns a Copilot provider for every casing of
\* "copilot" and a Qiniu provider for every casing of "qiniu" (blanks around
\* the name are ignored); for every other name it raises ValueError and no
\* provider has been constructed.
C24_ProviderByName ==
    providerLog /= <<>> =>
        LET call == providerLog[1]
        IN  IF IsCasingOf(call.name, AI_PROVIDER_COPILOT)
            THEN call.raised = "" /\ IsSome(provider) /\ provider.val.kind = "copilot"
            ELSE IF IsCasingOf(call.name, AI_PROVIDER_QINIU)
            THEN call.raised = "" /\ IsSome(provider) /\ provider.val.kind = "qiniu"
            ELSE call.raised = "ValueError" /\ provider = None /\ call.built = 0
                 /\ pc = "failed"

\* create_ai_provider called with " Qiniu " (mixed case, blanks around)
\* returned a Qiniu provider
C24_Witness ==
    /\ providerLog /= <<>>
    /\ providerLog[1].name = <<"sp", "Q", "i", "n", "i", "u", "sp">>
    /\ providerLog[1].raised = ""
    /\ provider.val.kind = "qiniu"

(***************************************************************************)
(* Response parser claims (checked under SpecParser).                      *)
(***************************************************************************)
\* the label is followed by a colon somewhere in the text
LabelOccurs(s, label) ==
    \E i \in 1..Len(s) :
        OccursAt(label, s, i) /\ i + Len(label) <= Len(s) /\ IsColon(s[i + Len(label)])

\* C25: every parse returns a result that carries the item's id, and each
\* absent section has its default whatever the other sections are: score 5
\* without a score label, the placeholder without a market-impact label, the
\* first 200 characters of the response without an analysis label, no entity
\* rating without a dash line, no industry rating without an industry marker.
C25_DefaultsNeverAbort ==
    pc = "done" =>
        LET s == backend.text
        IN  /\ IsSome(result)
            /\ result.val.news_id = news.val.id
            /\ ~LabelOccurs(s, <<"ping", "fen">>) => result.val.score = default_score
            /\ ~LabelOccurs(s, <<"shi", "chang", "ying2", "xiang">>)
                 => result.val.market_impact
                      = <<"zan", "wu2", "xiang3", "xi3", "fen", "xi2">>
            /\ ~LabelOccurs(s, <<"fen", "xi2">>)
                 => result.val.analysis = TakeChars(s, TextLimit)
            /\ ~Contains(s, <<"dash">>) => result.val.stock_ratings = <<>>
            /\ (~Contains(s, industry_rating_marker)
                  /\ ~Contains(s, industry_name_marker))
                 => result.val.industry_ratings = <<>>

\* len(text), counted without recursion
CharCount(s) ==
    Len(s) + (CharLen("x50") - 1) * Cardinality({k \in DOMAIN s : s[k] = "x50"})
           + (CharLen("digits4301") - 1)
               * Cardinality({k \in DOMAIN s : s[k] = "digits4301"})

\* C26: in every parsed result the rationale and the market impact have at
\* most 200 characters, every entity reason at most 100, every industry
\* reason at most 200, and every leader list at most 5 entries, none of them
\* empty or made of white space only.
C26_LengthBounds ==
    (pc = "done" /\ IsSome(result)) =>
        /\ CharCount(result.val.analysis) <= TextLimit
        /\ CharCount(result.val.market_impact) <= TextLimit
        /\ \A k \in DOMAIN result.val.stock_ratings :
               CharCount(result.val.stock_ratings[k].reason) <= ReasonLimit
        /\ \A k \in DOMAIN result.val.industry_ratings :
               LET r == result.val.industry_ratings[k]
               IN  /\ CharCount(r.reason) <= TextLimit
                   /\ Len(r.leader_stocks) <= MaxLeaders
                   /\ \A j \in DOMAIN r.leader_stocks :
                          \E c \in DOMAIN r.leader_stocks[j] :
                              ~IsSpace(r.leader_stocks[j][c])

\* a parse that cut every bounded field: rationale, market impact, an entity
\* reason and an industry reason at their limits, from a longer response, and
\* five leaders kept out of a longer list that held blank entries
C26_Witness ==
    /\ pc = "done"
    /\ IsSome(result)
    /\ CharCount(backend.text) > TextLimit
    /\ Contains(backend.text, <<"comma", "sp", "comma">>)
    /\ CharCount(result.val.analysis) = TextLimit
    /\ CharCount(result.val.market_impact) = TextLimit
    /\ \E k \in DOMAIN result.val.stock_ratings :
           CharCount(result.val.stock_ratings[k].reason) = ReasonLimit
    /\ \E k \in DOMAIN result.val.industry_ratings :
           /\ CharCount(result.val.industry_ratings[k].reason) = TextLimit
           /\ Len(result.val.industry_ratings[k].leader_stocks) = MaxLeaders

\* the first industry block of a response: from the first industry-name
\* label up to the next one (or the end of the text)
FirstBlock(s) ==
    LET first == MinOf(NameLabels(s))
        later == NameLabels(s) \ {first}
    IN  SubSeq(s, first, IF later = {} THEN Len(s) ELSE MinOf(later) - 1)

\* C27: an industry rating the parser gives has its name, direction, score,
\* leader list and rationale all from the first industry block of the
\* response: it is the rating that block gives when parsed on its own.
C27_FieldsFromFirstBlock ==
    (pc = "done" /\ IsSome(result) /\ result.val.industry_ratings /= <<>>) =>
        result.val.industry_ratings = ParseIndustryRatings(FirstBlock(backend.text))

(***************************************************************************)
(* Monitor claims on errors and counters (checked under SpecMonitor).      *)
(***************************************************************************)
\* the ways a cycle ends with an exception caught by run()
RaisedOutcomes == {"poll_raised", "analysis_raised", "display_raised"}

\* the step in which the cycle in progress raises
RaisingStep ==
    /\ pc \in {"loop", "analyze"}
    /\ cycleLog' /= cycleLog
    /\ cycleLog'[Len(cycleLog')].outcome \in RaisedOutcomes

\* C28: a cycle that raises, in the poll or in the analysis, adds exactly one
\* to errors and leaves the other counters as the cycle had set them (errors
\* changes in no other step); the loop then reaches its delay, sleeps unless
\* shutdown was requested, and tests the loop condition again; run() returns
\* only when shutdown was requested.
C28_ErrorCountedLoopGoesOn ==
    [][IsSome(monitor) =>
         LET stats == monitor.val.stats
             after == monitor'.val.stats
         IN  /\ RaisingStep =>
                  /\ after.errors = stats.errors + 1
                  /\ after.new_items = stats.new_items
                  /\ after.duplicates = stats.duplicates
                  /\ after.total_fetches =
                         IF pc = "loop" THEN stats.total_fetches + 1
                         ELSE stats.total_fetches
                  /\ monitor'.val.running = monitor.val.running
                  /\ pc' = "wait"
             /\ after.errors /= stats.errors => RaisingStep
             /\ (pc = "wait" /\ pc' /= "wait") =>
                  /\ pc' = "loop"
                  /\ cycleLog'[Len(cycleLog')].slept = monitor.val.running
             /\ pc' = "returned" => ~monitor.val.running]_vars

\* a cycle whose poll raised and a cycle whose analysis raised, each followed
\* by the delay and by another cycle, with both errors counted
C28_Witness ==
    /\ IsSome(monitor)
    /\ Len(cycleLog) = MaxCycles
    /\ cycleLog[1].outcome = "poll_raised" /\ cycleLog[1].slept
    /\ cycleLog[2].outcome = "analysis_raised" /\ cycleLog[2].slept
    /\ monitor.val.running
    /\ monitor.val.stats.errors = 2
    /\ monitor.val.stats.total_fetches = MaxCycles
    /\ monitor.val.stats.new_items = 1

\* C29: total_fetches is the number of cycles started; each poll that
\* returned none is counted once in duplicates and each returned item once in
\* new_items; new_items + duplicates <= total_fetches <= new_items +
\* duplicates + errors, with equality on the left when no poll raised.
C29_CountersConsistent ==
    IsSome(monitor) =>
        LET stats == monitor.val.stats
            cycles == 1..Len(cycleLog)
        IN  /\ stats.total_fetches = Len(cycleLog)
            /\ stats.duplicates =
                   Cardinality({k \in cycles : cycleLog[k].outcome = "none"})
            /\ stats.new_items =
                   Cardinality({k \in cycles : IsSome(cycleLog[k].polled)})
            /\ stats.new_items + stats.duplicates <= stats.total_fetches
            /\ stats.total_fetches
                   <= stats.new_items + stats.duplicates + stats.errors
            /\ (\A k \in cycles : cycleLog[k].outcome /= "poll_raised")
                 => stats.total_fetches = stats.new_items + stats.duplicates

\* three completed cycles: a poll that raised, a poll that returned none
\* because the fetch failed, and a poll that returned an item
C29_Witness ==
    /\ IsSome(monitor)
    /\ Len(cycleLog) = MaxCycles
    /\ pc = "loop"
    /\ \E k \in 1..Len(cycleLog) : cycleLog[k].outcome = "poll_raised"
    /\ \E k \in 1..Len(cycleLog) :
           cycleLog[k].outcome = "none" /\ cycleLog[k].feed = None
    /\ \E k \in 1..Len(cycleLog) : IsSome(cycleLog[k].polled)
    /\ monitor.val.stats.total_fetches
           > monitor.val.stats.new_items + monitor.val.stats.duplicates

(***************************************************************************)
(* Provider availability (checked under SpecProvider).                     *)
(***************************************************************************)
\* the analyze calls made so far on the provider that was built
AnalyzeCalls == {k \in 1..Len(providerLog) : providerLog[k].op = "analyze"}

\* C30: a provider's availability is the one decided by its constructor and
\* is the same before and after every analyze call (Copilot: available only
\* with a token, and exactly when the session was created; Qiniu: exactly
\* when both keys are non-empty); and every analyze call on an unavailable
\* provider returns none, raises nothing and sends no request.
C30_AvailabilityFixed ==
    pc = "created" =>
        LET made == providerLog[1]
            p == provider.val
        IN  /\ p.kind = "copilot" =>
                 /\ is_available(p) <=> p.session
                 /\ is_available(p) => NonEmpty(made.token)
            /\ p.kind = "qiniu" =>
                 (is_available(p)
                    <=> NonEmpty(made.access_key) /\ NonEmpty(made.secret_key))
            /\ \A k \in AnalyzeCalls :
                 /\ providerLog[k].available = is_available(p)
                 /\ providerLog[k].after = is_available(p)
                 /\ ~providerLog[k].available =>
                      /\ providerLog[k].returned = None
                      /\ ~providerLog[k].raised
                      /\ providerLog[k].requests = 0

\* a Qiniu provider built with an access key and an empty secret key, asked
\* as many times as the bound allows: no request was sent
C30_Witness ==
    /\ pc = "created"
    /\ provider.val.kind = "qiniu"
    /\ providerLog[1].access_key = Some("secret")
    /\ providerLog[1].secret_key = Some("")
    /\ Cardinality(AnalyzeCalls) = MaxCalls
    /\ provider.val.requests = 0
    /\ ~is_available(provider.val)

====
